---- MODULE Spec2Model ----
(***************************************************************************)
(* Model of the Confluence Data Center MCP adapter (src/main.go).          *)
(*                                                                         *)
(* Go values are modelled as follows.                                      *)
(*   string      a sequence of one-character strings (<<>> is "")          *)
(*   *T, absent  a sequence of length at most one (<<>> is nil / absent)   *)
(*   float64     [num |-> n], the value n / FloatDen                       *)
(*   int         an integer of IntWidth bits, two's complement             *)
(*   any         [t |-> "str" | "num" | "other", s |-> string, n |-> num]  *)
(***************************************************************************)
EXTENDS Integers, Sequences, FiniteSets, TLC

\* ------------------------------------------------------------------ bounds

\* Width of Go's int in the model (64 in the build; scaled down).
IntWidth == 4
\* Denominator of the float64 values the model draws: multiples of 1/FloatDen.
FloatDen == 2
\* Longest contentId the model draws.
MaxIdLen == 2
\* How many times another writer changes the remote item in one behaviour.
MaxExternalWrites == 1

\* ------------------------------------------------------------ Go integers

RECURSIVE Pow2(_)
Pow2(n) == IF n = 0 THEN 1 ELSE 2 * Pow2(n - 1)

MaxInt == Pow2(IntWidth - 1) - 1
MinInt == 0 - Pow2(IntWidth - 1)

\* Go's signed addition and conversion wrap around at the width of int.
WrapInt(x) == ((x - MinInt) % Pow2(IntWidth)) + MinInt

\* The float64 n / FloatDen truncated toward zero (a mathematical integer).
TruncFloat(n) == IF n >= 0 THEN n \div FloatDen ELSE 0 - ((0 - n) \div FloatDen)

\* int(v) for a float64 v: the truncation when it fits in int; otherwise the
\* result is implementation-dependent (amd64 yields the minimum int, arm64
\* saturates), so every such outcome is possible.
IntOfFloat(n) ==
    IF TruncFloat(n) >= MinInt /\ TruncFloat(n) <= MaxInt
        THEN {TruncFloat(n)}
        ELSE {MinInt, MaxInt}

\* ------------------------------------------------------------- Go strings

Str1(c) == <<c>>
EmptyStr == <<>>

\* strings.HasPrefix(s, p)
HasPrefix(s, p) == Len(p) <= Len(s) /\ SubSeq(s, 1, Len(p)) = p

\* strings.Contains(s, sub)
Contains(s, sub) ==
    \E k \in 0..(Len(s) - Len(sub)) : SubSeq(s, k + 1, k + Len(sub)) = sub

\* All strings over alphabet A of length at most n.
RECURSIVE StringsUpTo(_, _)
StringsUpTo(A, n) ==
    IF n = 0 THEN {EmptyStr}
    ELSE LET shorter == StringsUpTo(A, n - 1)
         IN  shorter \cup {Append(s, c) : s \in shorter, c \in A}

\* ---------------------------------------------------- optional values, any

None == <<>>
Some(x) == <<x>>
IsSome(o) == Len(o) = 1
Get(o) == o[1]

AnyStr(s) == [t |-> "str", s |-> s, n |-> 0]
AnyNum(n) == [t |-> "num", s |-> EmptyStr, n |-> n]
AnyOther == [t |-> "other", s |-> EmptyStr, n |-> 0]

\* The argument keys the handlers read.
ArgKeys ==
    {"contentId", "cql", "title", "spaceKey", "content", "type", "parentId",
     "version", "versionComment", "searchText", "limit", "start", "expand"}

\* args[k].(string): the value and whether the assertion succeeded.
AsString(args, k) ==
    IF IsSome(args[k]) /\ Get(args[k]).t = "str"
        THEN [ok |-> TRUE, v |-> Get(args[k]).s]
        ELSE [ok |-> FALSE, v |-> EmptyStr]

\* args[k].(float64): the value (as a numerator) and whether it succeeded.
AsFloat(args, k) ==
    IF IsSome(args[k]) /\ Get(args[k]).t = "num"
        THEN [ok |-> TRUE, v |-> Get(args[k]).n]
        ELSE [ok |-> FALSE, v |-> 0]

\* ------------------------------------------------- content items on the wire

\* ConfluencePage (the Go struct): every field has its zero value when unset.
Page(id, type, title, space, body, version, ancestors) ==
    [ID |-> id, Type |-> type, Title |-> title, Space |-> space,
     Body |-> body, Version |-> version, Ancestors |-> ancestors]

ZeroPage == Page(EmptyStr, EmptyStr, EmptyStr, None, None, None, <<>>)

\* A JSON object of the remote's content resource: each key may be absent, and
\* the remote may send keys (extra) that ConfluencePage does not declare.
Doc(id, type, title, space, body, version, ancestors, extra) ==
    [id |-> id, type |-> type, title |-> title, space |-> space,
     body |-> body, version |-> version, ancestors |-> ancestors,
     extra |-> extra]

\* The JSON object {}.
ZeroDoc == Doc(None, None, None, None, None, None, None, None)

SpaceRef(key) == [Key |-> key]
BodyOf(storage) == [Storage |-> storage]
BodyStorage(value, representation) ==
    [Value |-> value, Representation |-> representation]
Version(number, message) == [Number |-> number, Message |-> message]
Ancestor(id) == [ID |-> id]

OrEmpty(o) == IF IsSome(o) THEN Get(o) ELSE EmptyStr

\* json.Decode into a ConfluencePage: absent keys leave the zero value,
\* undeclared keys are dropped.
DecodePage(doc) ==
    Page(OrEmpty(doc.id), OrEmpty(doc.type), OrEmpty(doc.title), doc.space,
         doc.body, doc.version,
         IF IsSome(doc.ancestors) THEN Get(doc.ancestors) ELSE <<>>)

\* json.Marshal of a ConfluencePage: id, space, body, version and ancestors
\* are omitempty; type and title are always written.
MarshalPage(page) ==
    Doc(IF page.ID = EmptyStr THEN None ELSE Some(page.ID),
        Some(page.Type), Some(page.Title), page.Space, page.Body,
        page.Version,
        IF Len(page.Ancestors) = 0 THEN None ELSE Some(page.Ancestors),
        None)

\* ------------------------------------------------------------- literals

StorageRep == <<"storage">>
PageType == <<"page">>
BlogType == <<"blogpost">>
OldTitle == <<"O">>
NewTitle == <<"N">>
OtherTitle == <<"X">>
OldContent == <<"o">>
NewContent == <<"n">>
SpaceTS == <<"TS">>
TheId == <<"7">>

ContentPath == <<"/", "content">>
ContentPrefix == <<"/", "content", "/">>
SearchPath == <<"/", "search">>
ExpandBodyStorage == <<"body.storage">>
ExpandForUpdate == <<"body.storage", ",", "version", ",", "space">>

\* ------------------------------------------------------------ the remote

\* The items the remote may hold when a behaviour starts.
InitialItems ==
    { Doc(Some(TheId), Some(PageType), Some(OldTitle), Some(SpaceRef(SpaceTS)),
          Some(BodyOf(Some(BodyStorage(OldContent, StorageRep)))),
          Some(Version(1, EmptyStr)), None, None),
      Doc(Some(TheId), Some(BlogType), Some(OldTitle), Some(SpaceRef(SpaceTS)),
          Some(BodyOf(Some(BodyStorage(OldContent, StorageRep)))),
          Some(Version(MaxInt, EmptyStr)), None, Some(<<"_links">>)),
      Doc(Some(TheId), Some(EmptyStr), Some(EmptyStr), None, None, None,
          None, None),
      Doc(Some(TheId), Some(PageType), None, Some(SpaceRef(SpaceTS)),
          Some(BodyOf(None)), Some(Version(0 - 1, EmptyStr)), None, None),
      Doc(Some(TheId), Some(PageType), Some(OldTitle), None,
          Some(BodyOf(Some(BodyStorage(OldContent, StorageRep)))),
          Some(Version(0, EmptyStr)), None, None) }

\* What another writer leaves behind: a new title and the next version.
ExternalEdit(item) ==
    [item EXCEPT !.title = Some(OtherTitle),
                 !.version = IF IsSome(item.version)
                     THEN Some(Version(WrapInt(Get(item.version).Number + 1),
                                       EmptyStr))
                     ELSE Some(Version(1, EmptyStr))]

\* The item after the remote accepts a PUT of doc: the submitted fields, and
\* the remote's own undeclared keys kept.
ApplyPut(item, doc) == [doc EXCEPT !.extra = item.extra]

\* Status codes the remote answers with.
Statuses == {200, 201, 400, 500}
OkStatuses == {s \in Statuses : s < 400}
ErrStatuses == {s \in Statuses : s >= 400}

\* How much of the declared body arrives: all of it; cut inside the JSON value;
\* or cut after the complete JSON value (declared length longer than sent).
Deliveries == {"full", "cut_in_value", "cut_after_value"}

\* A response body: a JSON object of a content item, or any other text.
JsonBody(doc) == [json |-> TRUE, doc |-> Some(doc)]
TextBody == [json |-> FALSE, doc |-> None]

\* What httpClient.Do yields: a transport failure, or a response.
NetFailure == [net |-> "failed", status |-> 0, body |-> TextBody,
               delivery |-> "full"]
Response(status, body, delivery) ==
    [net |-> "ok", status |-> status, body |-> body, delivery |-> delivery]

\* ------------------------------------------------------ URLs and queries

\* strings.Split(s, sep) for a one-character separator.
RECURSIVE Split(_, _)
Split(s, sep) ==
    IF \A k \in 1..Len(s) : s[k] # sep THEN <<s>>
    ELSE LET k == CHOOSE j \in 1..Len(s) :
                      s[j] = sep /\ \A m \in 1..(j - 1) : s[m] # sep
         IN  <<SubSeq(s, 1, k - 1)>> \o Split(SubSeq(s, k + 1, Len(s)), sep)

\* path.Clean on the segments of a rooted path: empty and "." segments are
\* dropped, ".." removes the segment before it.
RECURSIVE CleanSegments(_, _)
CleanSegments(segs, acc) ==
    IF segs = <<>> THEN acc
    ELSE LET h == Head(segs)
         IN  IF h = <<>> \/ h = <<".">> THEN CleanSegments(Tail(segs), acc)
             ELSE IF h = <<".", ".">>
                 THEN CleanSegments(Tail(segs),
                          IF Len(acc) > 0 THEN SubSeq(acc, 1, Len(acc) - 1)
                          ELSE acc)
             ELSE CleanSegments(Tail(segs), Append(acc, h))

RECURSIVE JoinSegments(_)
JoinSegments(segs) ==
    IF segs = <<>> THEN <<>>
    ELSE <<"/">> \o Head(segs) \o JoinSegments(Tail(segs))

\* (*URL).JoinPath(elem): path.Join of the base path and elem, one trailing
\* slash of elem kept.
JoinPath(basePath, elem) ==
    LET joined == JoinSegments(
                      CleanSegments(Split(basePath \o <<"/">> \o elem, "/"), <<>>))
        p == IF joined = <<>> THEN <<"/">> ELSE joined
    IN  IF Len(elem) > 0 /\ elem[Len(elem)] = "/" /\ p[Len(p)] # "/"
            THEN Append(p, "/") ELSE p

\* The characters a URL is cut at; every other element of a string is a run of
\* letters.
UrlSpecials == {":", "/", "\t"}

\* strings.ToLower on a run of letters.
Lower(w) == IF w = "HTTP" THEN "http" ELSE w
LowerAll(s) == [k \in 1..Len(s) |-> Lower(s[k])]

\* The index of the first element of s that is in set S, or 0.
IndexAny(s, S) ==
    IF \E k \in 1..Len(s) : s[k] \in S
        THEN CHOOSE k \in 1..Len(s) :
                 s[k] \in S /\ \A m \in 1..(k - 1) : s[m] \notin S
        ELSE 0

\* url.Parse.  The scheme is the run of letters before the first ":", when
\* nothing else comes before it; "//" opens the authority, which ends at the
\* next "/"; a scheme followed by anything but "/" makes the rest opaque.  It
\* fails on a control character, on a ":" with nothing before it, and on an
\* authority whose port is not a number.
UrlParse(u) ==
    LET k == IndexAny(u, UrlSpecials)
        hasScheme == k > 1 /\ u[k] = ":"
        scheme == IF hasScheme THEN LowerAll(SubSeq(u, 1, k - 1)) ELSE <<>>
        rest == IF hasScheme THEN SubSeq(u, k + 1, Len(u)) ELSE u
        slashes == HasPrefix(rest, <<"/", "/">>)
        afterSl == IF slashes THEN SubSeq(rest, 3, Len(rest)) ELSE <<>>
        j == IndexAny(afterSl, {"/"})
        host == IF ~slashes THEN <<>>
                ELSE IF j = 0 THEN afterSl ELSE SubSeq(afterSl, 1, j - 1)
        opaque == hasScheme /\ ~HasPrefix(rest, <<"/">>)
        path == IF opaque THEN <<>>
                ELSE IF ~slashes THEN rest
                ELSE IF j = 0 THEN <<>> ELSE SubSeq(afterSl, j, Len(afterSl))
        ok == /\ \A m \in 1..Len(u) : u[m] # "\t"
              /\ ~(k = 1 /\ u[k] = ":")
              /\ \A m \in 1..Len(host) : host[m] # ":"
    IN  [ok |-> ok, Scheme |-> scheme, Host |-> host, Path |-> path,
         Opaque |-> IF opaque THEN rest ELSE <<>>,
         OmitHost |-> hasScheme /\ ~slashes /\ HasPrefix(rest, <<"/">>)]

\* (*URL).String
UrlString(u) ==
    (IF u.Scheme # <<>> THEN u.Scheme \o <<":">> ELSE <<>>)
    \o (IF u.Opaque # <<>> THEN u.Opaque
        ELSE (IF (u.Scheme # <<>> \/ u.Host # <<>>)
                    /\ ~(u.OmitHost /\ u.Host = <<>>)
                    /\ (u.Host # <<>> \/ u.Path # <<>>)
                  THEN <<"/", "/">> \o u.Host ELSE <<>>)
             \o (IF u.Path # <<>> /\ Head(u.Path) # "/" /\ u.Host # <<>>
                     THEN <<"/">> ELSE <<>>)
             \o u.Path)

\* url.Values: the parameters the handlers set; an absent key is None.
EmptyQuery == [limit |-> None, start |-> None, expand |-> None, cql |-> None]

\* ------------------------------------------------------------ errors

\* A Go error: the format that built it and what it carries.
Err(kind, status, detail) == [kind |-> kind, status |-> status, detail |-> detail]
NoErr == Err("nil", 0, TextBody)
ErrOf(kind) == Err(kind, 0, TextBody)

ErrNotObject == "arguments are not a JSON object"
ErrBaseURL == "invalid base URL: %w"
ErrMarshal == "failed to marshal request body: %w"
ErrCreate == "failed to create request: %w"
ErrSend == "request failed: %w"
ErrRead == "failed to read response body: %w"
ErrAPI == "API error (status %d): %s"
ErrDecode == "failed to decode JSON: %w"

\* ------------------------------------------------------ the configuration

ErrToken == "CONFLUENCE_API_TOKEN environment variable is required"
ErrNoURL == "CONFLUENCE_BASE_URL (or CONFLUENCE_HOST) environment variable is required"
ErrScheme == "base URL must use http or https scheme"

HttpsPrefix == <<"http", "s", ":", "/", "/">>
SchemeSep == <<":", "/", "/">>
ApiRoot == <<"/", "rest", "/", "api">>

\* The process environment loadConfig reads (an unset variable reads as "").
Environ(token, baseURL, apiBasePath, host) ==
    [CONFLUENCE_API_TOKEN |-> token, CONFLUENCE_BASE_URL |-> baseURL,
     CONFLUENCE_API_BASE_PATH |-> apiBasePath, CONFLUENCE_HOST |-> host]

\* strings.TrimSuffix(s, suffix)
TrimSuffix(s, suffix) ==
    IF Len(suffix) <= Len(s)
           /\ SubSeq(s, Len(s) - Len(suffix) + 1, Len(s)) = suffix
        THEN SubSeq(s, 1, Len(s) - Len(suffix))
        ELSE s

\* rawURL with the lowest-priority variable read first.
RawEndpoint_HostFirst(env) ==
    IF env.CONFLUENCE_HOST # EmptyStr THEN env.CONFLUENCE_HOST
    ELSE IF env.CONFLUENCE_API_BASE_PATH # EmptyStr
        THEN env.CONFLUENCE_API_BASE_PATH
    ELSE env.CONFLUENCE_BASE_URL

\* loadConfig: the rawURL it takes from the environment.
RawEndpoint(env) ==
    IF env.CONFLUENCE_BASE_URL # EmptyStr THEN env.CONFLUENCE_BASE_URL
    ELSE IF env.CONFLUENCE_API_BASE_PATH # EmptyStr
        THEN env.CONFLUENCE_API_BASE_PATH
    ELSE env.CONFLUENCE_HOST

\* The API root appended unless the path already ends with it.
ApiRootPath_UnlessSuffix(path) ==
    IF TrimSuffix(path, ApiRoot) # path THEN path
    ELSE TrimSuffix(path, <<"/">>) \o ApiRoot

\* loadConfig: the path it gives the base URL.
ApiRootPath(path) ==
    IF Contains(path, ApiRoot) THEN path
    ELSE TrimSuffix(path, <<"/">>) \o ApiRoot

\* loadConfig: the configuration, or the error.
loadConfig(env) ==
    LET rawURL == RawEndpoint(env)
        withScheme == IF Contains(rawURL, SchemeSep) THEN rawURL
                      ELSE HttpsPrefix \o rawURL
        u == UrlParse(withScheme)
        fail(kind) == [err |-> ErrOf(kind), cfg |-> None]
    IN  IF env.CONFLUENCE_API_TOKEN = EmptyStr THEN fail(ErrToken)
        ELSE IF rawURL = EmptyStr THEN fail(ErrNoURL)
        ELSE IF ~u.ok THEN fail(ErrBaseURL)
        ELSE IF ~HasPrefix(u.Scheme, <<"http">>) THEN fail(ErrScheme)
        ELSE [err |-> NoErr,
              cfg |-> Some([BaseURL |->
                                UrlString([u EXCEPT !.Path = ApiRootPath(@)]),
                            Token |-> env.CONFLUENCE_API_TOKEN])]

\* ------------------------------------------------------ the transport client

\* The configurations a client is built with: the resolver's output, and a
\* base URL that does not parse.
Configs ==
    { [BaseURL |-> <<"http", "s", ":", "/", "/", "h", "/", "rest", "/", "api">>,
       Token |-> <<"tok">>],
      [BaseURL |-> <<"http", "s", ":", "/", "/", "h", "\t">>,
       Token |-> <<"tok">>] }

\* A body json.Marshal rejects (a channel), and a method
\* http.NewRequestWithContext rejects (it is not a token).
Unmarshalable == [chan |-> "int"]
MalformedMethod == "BAD METHOD"

\* The request of executeRequest, once it is known that one is built.
NewRequest(cfg, u, method, path, query, body) ==
    [method |-> method,
     origin |-> UrlString([u EXCEPT !.Path = <<>>]),
     path |-> JoinPath(u.Path, path),
     query |-> query,
     body |-> IF IsSome(body) THEN Some(MarshalPage(Get(body))) ELSE None,
     auth |-> <<"Bearer ">> \o cfg.Token]

\* executeRequest that hands httpClient.Do whatever method it was given.
BuildRequest_AnyMethod(cfg, method, path, query, body) ==
    LET u == UrlParse(cfg.BaseURL)
    IN  IF ~u.ok THEN [err |-> ErrOf(ErrBaseURL), req |-> None]
        ELSE IF IsSome(body) /\ Get(body) = Unmarshalable
            THEN [err |-> ErrOf(ErrMarshal), req |-> None]
        ELSE [err |-> NoErr,
              req |-> Some(NewRequest(cfg, u, method, path, query, body))]

\* executeRequest up to the send: the request handed to httpClient.Do, or the
\* error returned before any network call: the base URL does not parse, the
\* body does not marshal, or the request cannot be constructed.
BuildRequest(cfg, method, path, query, body) ==
    LET u == UrlParse(cfg.BaseURL)
    IN  IF ~u.ok THEN [err |-> ErrOf(ErrBaseURL), req |-> None]
        ELSE IF IsSome(body) /\ Get(body) = Unmarshalable
            THEN [err |-> ErrOf(ErrMarshal), req |-> None]
        ELSE IF method = MalformedMethod
            THEN [err |-> ErrOf(ErrCreate), req |-> None]
        ELSE [err |-> NoErr,
              req |-> Some(NewRequest(cfg, u, method, path, query, body))]

\* executeRequest after the send: httpClient.Do's outcome as (resp, err).
executeRequest(out) ==
    IF out.net = "failed" THEN ErrOf(ErrSend) ELSE NoErr

\* doRequest with the status test written as "is not 200".
doRequest_Not200(out) ==
    IF executeRequest(out) # NoErr
        THEN [err |-> executeRequest(out), bytes |-> None]
    ELSE IF out.delivery # "full"
        THEN [err |-> ErrOf(ErrRead), bytes |-> None]
    ELSE IF out.status # 200
        THEN [err |-> Err(ErrAPI, out.status, out.body), bytes |-> None]
    ELSE [err |-> NoErr, bytes |-> Some(out.body)]

\* doRequest on the outcome of the send: the body's bytes, or an error.  The
\* body is read to its end before the status is looked at.
doRequest(out) ==
    IF executeRequest(out) # NoErr
        THEN [err |-> executeRequest(out), bytes |-> None]
    ELSE IF out.delivery # "full"
        THEN [err |-> ErrOf(ErrRead), bytes |-> None]
    ELSE IF out.status >= 400
        THEN [err |-> Err(ErrAPI, out.status, out.body), bytes |-> None]
    ELSE [err |-> NoErr, bytes |-> Some(out.body)]

\* getJSON without its test of the status.
getJSON_NoStatusCheck(out) ==
    IF executeRequest(out) # NoErr
        THEN [err |-> executeRequest(out), target |-> None]
    ELSE IF ~out.body.json \/ out.delivery = "cut_in_value"
        THEN [err |-> ErrOf(ErrDecode), target |-> None]
    ELSE [err |-> NoErr, target |-> Some(DecodePage(Get(out.body.doc)))]

\* getJSON on the outcome of the send: the decoded target, or an error.  The
\* decoder stops at the end of the first JSON value, so a body cut after that
\* value decodes.
getJSON(out) ==
    IF executeRequest(out) # NoErr
        THEN [err |-> executeRequest(out), target |-> None]
    ELSE IF out.status >= 400
        THEN [err |-> Err(ErrAPI, out.status, out.body), target |-> None]
    ELSE IF ~out.body.json \/ out.delivery = "cut_in_value"
        THEN [err |-> ErrOf(ErrDecode), target |-> None]
    ELSE [err |-> NoErr, target |-> Some(DecodePage(Get(out.body.doc)))]

\* How many times doRequest closes the response body before it returns on
\* outcome out: the close is deferred once executeRequest has returned a
\* response, and runs on each return after that.
doRequestCloses(out) ==
    IF executeRequest(out) # NoErr THEN 0 ELSE 1

\* getJSON with the close as its last statement instead of deferred.
getJSONCloses_AtEnd(out) ==
    IF getJSON(out).err # NoErr THEN 0 ELSE 1

\* How many times getJSON closes the response body before it returns.
getJSONCloses(out) ==
    IF executeRequest(out) # NoErr THEN 0 ELSE 1

\* ---------------------------------------------------- the argument mapper

\* The argument mapping with no key set.
NoArgs == [k \in ArgKeys |-> None]

\* The caller's argument container: absent, not a string-keyed mapping, or a
\* mapping.
RawNil == [kind |-> "nil", m |-> NoArgs]
RawNotMap == [kind |-> "notmap", m |-> NoArgs]
RawMap(m) == [kind |-> "map", m |-> m]

\* getArguments failing on an absent container.
getArguments_NilFails(raw) ==
    IF raw.kind # "map" THEN [err |-> ErrOf(ErrNotObject), args |-> NoArgs]
    ELSE [err |-> NoErr, args |-> raw.m]

\* getArguments
getArguments(raw) ==
    IF raw.kind = "nil" THEN [err |-> NoErr, args |-> NoArgs]
    ELSE IF raw.kind # "map" THEN [err |-> ErrOf(ErrNotObject), args |-> NoArgs]
    ELSE [err |-> NoErr, args |-> raw.m]

\* strings.TrimSpace
RECURSIVE TrimLeft(_)
TrimLeft(s) == IF Len(s) > 0 /\ Head(s) = " " THEN TrimLeft(Tail(s)) ELSE s
RECURSIVE TrimRight(_)
TrimRight(s) ==
    IF Len(s) > 0 /\ s[Len(s)] = " " THEN TrimRight(SubSeq(s, 1, Len(s) - 1))
    ELSE s
TrimSpace(s) == TrimRight(TrimLeft(s))

\* ensureExpand comparing the parts as they are, untrimmed.
ensureExpand_NoTrim(current, required) ==
    IF current = EmptyStr THEN required
    ELSE LET parts == Split(current, ",")
         IN  IF \E k \in 1..Len(parts) : parts[k] = required
                 THEN current
                 ELSE current \o <<",">> \o required

\* ensureExpand
ensureExpand(current, required) ==
    IF current = EmptyStr THEN required
    ELSE LET parts == Split(current, ",")
         IN  IF \E k \in 1..Len(parts) : TrimSpace(parts[k]) = required
                 THEN current
                 ELSE current \o <<",">> \o required

defaultLimit == 25

\* newQueryWithCommonArgs: the queries it can return (one, unless a numeric
\* argument is outside int, where int(v) is implementation-dependent).
newQueryWithCommonArgs(args) ==
    LET limit == AsFloat(args, "limit")
        start == AsFloat(args, "start")
        expand == AsString(args, "expand")
    IN  { [limit |-> Some(l), start |-> st,
           expand |-> IF expand.ok /\ expand.v # EmptyStr
                          THEN Some(expand.v) ELSE None,
           cql |-> None] :
            l \in (IF limit.ok THEN IntOfFloat(limit.v) ELSE {defaultLimit}),
            st \in (IF start.ok THEN {Some(n) : n \in IntOfFloat(start.v)}
                    ELSE {None}) }

\* ------------------------------------------------------------ tool results

\* mcp.NewToolResultError(ctx + err) and mcp.NewToolResultText(bytes).
ToolResultError(ctx, err) ==
    [isError |-> TRUE, ctx |-> ctx, err |-> err, payload |-> TextBody]
ToolResultText(body) ==
    [isError |-> FALSE, ctx |-> "", err |-> NoErr, payload |-> body]

\* What a handler returns: (result, error); every return statement of the
\* handlers gives a nil error.
Return(res) == [res |-> res, err |-> NoErr]

\* A handler step's decision: return now, or send a request and wait.
Stop(res) == [ret |-> Some(Return(res)), req |-> None]
Go(req) == [ret |-> None, req |-> Some(req)]

\* The call of doRequest or getJSON up to the send.
SendOrFail(cfg, method, path, query, body, ctx) ==
    LET b == BuildRequest(cfg, method, path, query, body)
    IN  IF b.err # NoErr THEN Stop(ToolResultError(ctx, b.err))
        ELSE Go(Get(b.req))

\* The end of a handler that returns doRequest's bytes.
ReturnBytes(ctx, out) ==
    LET r == doRequest(out)
    IN  IF r.err # NoErr THEN Return(ToolResultError(ctx, r.err))
        ELSE Return(ToolResultText(Get(r.bytes)))

MsgArgs == "%s"
MsgContentIdGet == "contentId must be a string and is required"
MsgContentIdUpdate == "contentId is required"
MsgBadContentId == "invalid contentId format"
MsgCql == "cql must be a string and is required"
MsgTitle == "title is required"
MsgSpaceKey == "spaceKey is required"
MsgContent == "content is required"
MsgNoVersion == "could not determine current version from API response"
CtxGet == "error getting content: %v"
CtxSearch == "error searching content: %v"
CtxCreate == "error creating content: %v"
CtxRetrieve == "failed to retrieve current content: %v"
CtxUpdate == "error updating content: %v"
CtxList == "error listing spaces: %v"

\* The anti-traversal test without its ".." half.
BadContentID_SlashOnly(contentID) == Contains(contentID, <<"/">>)

\* The anti-traversal test of get-content and update-content.
BadContentID(contentID) ==
    Contains(contentID, <<"/">>) \/ Contains(contentID, <<".", ".">>)

\* ------------------------------------------------------------- handlers
\* Each handler is split where it waits for the remote: the part up to the
\* send, and the part that runs on the outcome of the send.

\* handleGetContent passing the caller's expand on as it is.
handleGetContent_CallerExpand(cfg, raw) ==
    LET a == getArguments(raw)
        contentID == AsString(a.args, "contentId")
    IN  IF a.err # NoErr THEN {Stop(ToolResultError(MsgArgs, a.err))}
        ELSE IF ~contentID.ok \/ contentID.v = EmptyStr
            THEN {Stop(ToolResultError(MsgContentIdGet, NoErr))}
        ELSE IF BadContentID(contentID.v)
            THEN {Stop(ToolResultError(MsgBadContentId, NoErr))}
        ELSE { SendOrFail(cfg, "GET", ContentPrefix \o contentID.v, q,
                   None, CtxGet) :
               q \in newQueryWithCommonArgs(a.args) }

\* handleGetContent up to the send.
handleGetContent(cfg, raw) ==
    LET a == getArguments(raw)
        contentID == AsString(a.args, "contentId")
    IN  IF a.err # NoErr THEN {Stop(ToolResultError(MsgArgs, a.err))}
        ELSE IF ~contentID.ok \/ contentID.v = EmptyStr
            THEN {Stop(ToolResultError(MsgContentIdGet, NoErr))}
        ELSE IF BadContentID(contentID.v)
            THEN {Stop(ToolResultError(MsgBadContentId, NoErr))}
        ELSE { SendOrFail(cfg, "GET", ContentPrefix \o contentID.v,
                   [q EXCEPT !.expand =
                        Some(ensureExpand(OrEmpty(q.expand), ExpandBodyStorage))],
                   None, CtxGet) :
               q \in newQueryWithCommonArgs(a.args) }

\* handleGetContent on the outcome of the send.
handleGetContentReturn(out) == ReturnBytes(CtxGet, out)

\* handleSearchContent up to the send.
handleSearchContent(cfg, raw) ==
    LET a == getArguments(raw)
        cql == AsString(a.args, "cql")
    IN  IF a.err # NoErr THEN {Stop(ToolResultError(MsgArgs, a.err))}
        ELSE IF ~cql.ok \/ cql.v = EmptyStr
            THEN {Stop(ToolResultError(MsgCql, NoErr))}
        ELSE { SendOrFail(cfg, "GET", SearchPath,
                   [q EXCEPT !.cql = Some(cql.v)], None, CtxSearch) :
               q \in newQueryWithCommonArgs(a.args) }

handleSearchContentReturn(out) == ReturnBytes(CtxSearch, out)

\* CreatePayload with an ancestor entry whatever parentId is.
CreatePayload_AlwaysAncestor(args) ==
    LET typeStr == AsString(args, "type")
        parentID == AsString(args, "parentId").v
    IN  Page(EmptyStr,
             IF ~typeStr.ok \/ typeStr.v = EmptyStr THEN PageType ELSE typeStr.v,
             AsString(args, "title").v,
             Some(SpaceRef(AsString(args, "spaceKey").v)),
             Some(BodyOf(Some(BodyStorage(AsString(args, "content").v,
                                          StorageRep)))),
             None,
             <<Ancestor(parentID)>>)

\* The payload create-content builds.
CreatePayload(args) ==
    LET typeStr == AsString(args, "type")
        parentID == AsString(args, "parentId").v
    IN  Page(EmptyStr,
             IF ~typeStr.ok \/ typeStr.v = EmptyStr THEN PageType ELSE typeStr.v,
             AsString(args, "title").v,
             Some(SpaceRef(AsString(args, "spaceKey").v)),
             Some(BodyOf(Some(BodyStorage(AsString(args, "content").v,
                                          StorageRep)))),
             None,
             IF parentID # EmptyStr THEN <<Ancestor(parentID)>> ELSE <<>>)

\* handleCreateContent testing content before title and spaceKey.
handleCreateContent_ContentFirst(cfg, raw) ==
    LET a == getArguments(raw)
        title == AsString(a.args, "title")
        spaceKey == AsString(a.args, "spaceKey")
        contentStr == AsString(a.args, "content")
    IN  IF a.err # NoErr THEN {Stop(ToolResultError(MsgArgs, a.err))}
        ELSE IF ~contentStr.ok \/ contentStr.v = EmptyStr
            THEN {Stop(ToolResultError(MsgContent, NoErr))}
        ELSE IF ~title.ok \/ title.v = EmptyStr
            THEN {Stop(ToolResultError(MsgTitle, NoErr))}
        ELSE IF ~spaceKey.ok \/ spaceKey.v = EmptyStr
            THEN {Stop(ToolResultError(MsgSpaceKey, NoErr))}
        ELSE {SendOrFail(cfg, "POST", ContentPath, EmptyQuery,
                         Some(CreatePayload(a.args)), CtxCreate)}

\* handleCreateContent up to the send.
handleCreateContent(cfg, raw) ==
    LET a == getArguments(raw)
        title == AsString(a.args, "title")
        spaceKey == AsString(a.args, "spaceKey")
        contentStr == AsString(a.args, "content")
    IN  IF a.err # NoErr THEN {Stop(ToolResultError(MsgArgs, a.err))}
        ELSE IF ~title.ok \/ title.v = EmptyStr
            THEN {Stop(ToolResultError(MsgTitle, NoErr))}
        ELSE IF ~spaceKey.ok \/ spaceKey.v = EmptyStr
            THEN {Stop(ToolResultError(MsgSpaceKey, NoErr))}
        ELSE IF ~contentStr.ok \/ contentStr.v = EmptyStr
            THEN {Stop(ToolResultError(MsgContent, NoErr))}
        ELSE {SendOrFail(cfg, "POST", ContentPath, EmptyQuery,
                         Some(CreatePayload(a.args)), CtxCreate)}

handleCreateContentReturn(out) == ReturnBytes(CtxCreate, out)

\* strings.ReplaceAll(s, old, new) for a one-character old.
RECURSIVE ReplaceAll(_, _, _)
ReplaceAll(s, old, new) ==
    IF s = <<>> THEN <<>>
    ELSE (IF Head(s) = old THEN new ELSE <<Head(s)>>)
             \o ReplaceAll(Tail(s), old, new)

\* The cql of list-spaces with the search text put in as it is.
ListSpacesCql_NoEscape(searchText) ==
    IF searchText = EmptyStr THEN <<"type=space">>
    ELSE <<"type=space", " AND title ~ ", "\"">> \o searchText \o <<"\"">>

\* The cql list-spaces builds.
ListSpacesCql(searchText) ==
    IF searchText = EmptyStr THEN <<"type=space">>
    ELSE <<"type=space", " AND title ~ ", "\"">>
             \o ReplaceAll(searchText, "\"", <<"\\", "\"">>) \o <<"\"">>

\* handleListSpaces sending its search as a POST.
handleListSpaces_Post(cfg, raw) ==
    LET a == getArguments(raw)
        searchText == AsString(a.args, "searchText").v
    IN  IF a.err # NoErr THEN {Stop(ToolResultError(MsgArgs, a.err))}
        ELSE { SendOrFail(cfg, "POST", SearchPath,
                   [q EXCEPT !.cql = Some(ListSpacesCql(searchText))],
                   Some(ZeroPage), CtxList) :
               q \in newQueryWithCommonArgs(a.args) }

\* handleListSpaces up to the send.
handleListSpaces(cfg, raw) ==
    LET a == getArguments(raw)
        searchText == AsString(a.args, "searchText").v
    IN  IF a.err # NoErr THEN {Stop(ToolResultError(MsgArgs, a.err))}
        ELSE { SendOrFail(cfg, "GET", SearchPath,
                   [q EXCEPT !.cql = Some(ListSpacesCql(searchText))],
                   None, CtxList) :
               q \in newQueryWithCommonArgs(a.args) }

handleListSpacesReturn(out) == ReturnBytes(CtxList, out)

\* UpdateVersion preferring the fetched version to the version argument.
UpdateVersion_FetchedFirst(args, currentData) ==
    LET v == AsFloat(args, "version")
    IN  IF IsSome(currentData.Version)
            THEN {Some(WrapInt(Get(currentData.Version).Number + 1))}
        ELSE IF v.ok THEN {Some(n) : n \in IntOfFloat(v.v)}
        ELSE {None}

\* UpdateVersion testing for the version block before the version argument.
UpdateVersion_NilFirst(args, currentData) ==
    LET v == AsFloat(args, "version")
    IN  IF ~IsSome(currentData.Version) THEN {None}
        ELSE IF v.ok THEN {Some(n) : n \in IntOfFloat(v.v)}
        ELSE {Some(WrapInt(Get(currentData.Version).Number + 1))}

\* UpdateVersion that submits the fetched version as it is.
UpdateVersion_KeepFetched(args, currentData) ==
    LET v == AsFloat(args, "version")
    IN  IF v.ok THEN {Some(n) : n \in IntOfFloat(v.v)}
        ELSE IF ~IsSome(currentData.Version) THEN {None}
        ELSE {Some(Get(currentData.Version).Number)}

\* The version update-content submits: the versions it can compute (None:
\* it cannot determine one).
UpdateVersion(args, currentData) ==
    LET v == AsFloat(args, "version")
    IN  IF v.ok THEN {Some(n) : n \in IntOfFloat(v.v)}
        ELSE IF ~IsSome(currentData.Version) THEN {None}
        ELSE {Some(WrapInt(Get(currentData.Version).Number + 1))}

\* UpdatePayload without the fall-back to the fetched body.
UpdatePayload_DropBody(args, contentID, currentData, newVersion) ==
    LET title == AsString(args, "title").v
        contentStr == AsString(args, "content").v
        versionComment == AsString(args, "versionComment").v
    IN  Page(contentID, currentData.Type,
             IF title # EmptyStr THEN title ELSE currentData.Title,
             currentData.Space,
             IF contentStr # EmptyStr
                 THEN Some(BodyOf(Some(BodyStorage(contentStr, StorageRep))))
                 ELSE None,
             Some(Version(newVersion, versionComment)),
             <<>>)

\* The payload update-content builds.
UpdatePayload(args, contentID, currentData, newVersion) ==
    LET title == AsString(args, "title").v
        contentStr == AsString(args, "content").v
        versionComment == AsString(args, "versionComment").v
    IN  Page(contentID, currentData.Type,
             IF title # EmptyStr THEN title ELSE currentData.Title,
             currentData.Space,
             IF contentStr # EmptyStr
                 THEN Some(BodyOf(Some(BodyStorage(contentStr, StorageRep))))
                 ELSE currentData.Body,
             Some(Version(newVersion, versionComment)),
             <<>>)

\* handleUpdateContent up to the send of the GET.
handleUpdateContent(cfg, raw) ==
    LET a == getArguments(raw)
        contentID == AsString(a.args, "contentId")
    IN  IF a.err # NoErr THEN {Stop(ToolResultError(MsgArgs, a.err))}
        ELSE IF ~contentID.ok \/ contentID.v = EmptyStr
            THEN {Stop(ToolResultError(MsgContentIdUpdate, NoErr))}
        ELSE IF BadContentID(contentID.v)
            THEN {Stop(ToolResultError(MsgBadContentId, NoErr))}
        ELSE { SendOrFail(cfg, "GET", ContentPrefix \o contentID.v,
                   [q EXCEPT !.expand = Some(ExpandForUpdate)], None,
                   CtxRetrieve) :
               q \in newQueryWithCommonArgs(a.args) }

\* handleUpdateContentAfterGet that neither returns nor sends when getJSON
\* failed.
handleUpdateContentAfterGet_HangOnErr(cfg, raw, out) ==
    LET args == getArguments(raw).args
        contentID == AsString(args, "contentId").v
        got == getJSON(out)
        currentData == IF IsSome(got.target) THEN Get(got.target) ELSE ZeroPage
    IN  IF got.err # NoErr THEN {}
        ELSE { IF ~IsSome(nv) THEN Stop(ToolResultError(MsgNoVersion, NoErr))
               ELSE SendOrFail(cfg, "PUT", ContentPrefix \o contentID,
                        EmptyQuery,
                        Some(UpdatePayload(args, contentID, currentData, Get(nv))),
                        CtxUpdate) :
               nv \in UpdateVersion(args, currentData) }

\* handleUpdateContentAfterGet without the return on getJSON's error: it goes
\* on with the zero-valued currentData.
handleUpdateContentAfterGet_IgnoreErr(cfg, raw, out) ==
    LET args == getArguments(raw).args
        contentID == AsString(args, "contentId").v
        got == getJSON(out)
        currentData == IF IsSome(got.target) THEN Get(got.target) ELSE ZeroPage
    IN  { IF ~IsSome(nv) THEN Stop(ToolResultError(MsgNoVersion, NoErr))
          ELSE SendOrFail(cfg, "PUT", ContentPrefix \o contentID,
                   EmptyQuery,
                   Some(UpdatePayload(args, contentID, currentData, Get(nv))),
                   CtxUpdate) :
          nv \in UpdateVersion(args, currentData) }

\* handleUpdateContent from the outcome of the GET to the send of the PUT.
handleUpdateContentAfterGet(cfg, raw, out) ==
    LET args == getArguments(raw).args
        contentID == AsString(args, "contentId").v
        got == getJSON(out)
        currentData == IF IsSome(got.target) THEN Get(got.target) ELSE ZeroPage
    IN  IF got.err # NoErr THEN {Stop(ToolResultError(CtxRetrieve, got.err))}
        ELSE { IF ~IsSome(nv) THEN Stop(ToolResultError(MsgNoVersion, NoErr))
               ELSE SendOrFail(cfg, "PUT", ContentPrefix \o contentID,
                        EmptyQuery,
                        Some(UpdatePayload(args, contentID, currentData, Get(nv))),
                        CtxUpdate) :
               nv \in UpdateVersion(args, currentData) }

\* handleUpdateContent on the outcome of the PUT.
handleUpdateContentReturn(out) == ReturnBytes(CtxUpdate, out)

\* ------------------------------------------------------------- the state

VARIABLES
    startup,    \* the process start: the environment, what loadConfig
                \* returned, and what it returned the start before
    config,     \* the client's ConfluenceConfig
    remote,     \* the content item the remote holds
    created,    \* how many items POSTs have created on the remote
    extWrites,  \* how many times another writer has changed the item
    pc,         \* per invocation: "idle", "wait" (for the remote), "done"
    op,         \* per invocation: the operation invoked
    raw,        \* per invocation: the caller's argument container
    calls,      \* per invocation: the requests sent, in order, each with its
                \* outcome once httpClient.Do has returned
    result      \* per invocation: what the handler returned

vars == <<startup, config, remote, created, extWrites, pc, op, raw, calls, result>>

\* Handler invocations.
Inv == {"a", "b"}

Ops == {"get-content", "search-content", "create-content", "update-content",
        "list-spaces"}

\* ------------------------------------------------------ the inputs drawn

IdAlphabet == {"7", "/", "."}
ContentIds == StringsUpTo(IdAlphabet, MaxIdLen)

\* An argument that should be a string: absent, of another type, or a string.
StringArg(S) == {None, Some(AnyOther)} \cup {Some(AnyStr(x)) : x \in S}
\* An optional text argument: absent, empty, or the text.
TextArg(x) == {None, Some(AnyStr(EmptyStr)), Some(AnyStr(x))}

\* float64 values: -1, 0, 1/FloatDen, 1, 2 + 1/FloatDen, and MaxInt + 1.
Floats == {0 - FloatDen, 0, 1, FloatDen, 2 * FloatDen + 1,
           FloatDen * (MaxInt + 1)}
NumberArg(F) == {None, Some(AnyOther)} \cup {Some(AnyNum(n)) : n \in F}

\* expand arguments: one token, several, with spaces around a token, with
\* another spelling of body.storage, with a token twice.
Expands ==
    { <<"version">>,
      ExpandBodyStorage,
      <<"version", ",", " ", "body.storage">>,
      <<"body.storage", " ", ",", "version">>,
      <<"Body.storage">>,
      <<"body.storage", "x">>,
      <<"version", ",", "space", ",", "version">> }

\* get-content: every contentId with and without an expand; and, for one
\* valid contentId, every expand and a start.
GetBags ==
    {RawNil, RawNotMap} \cup
    { RawMap([NoArgs EXCEPT !.contentId = id, !.expand = e]) :
        id \in StringArg(ContentIds),
        e \in {None, Some(AnyStr(<<"version">>))} } \cup
    { RawMap([NoArgs EXCEPT !.contentId = Some(AnyStr(TheId)), !.expand = e,
                            !.start = st]) :
        e \in StringArg({EmptyStr} \cup Expands),
        st \in {None, Some(AnyNum(FloatDen))} }

SearchBags ==
    {RawNil, RawNotMap} \cup
    { RawMap([NoArgs EXCEPT !.cql = q, !.limit = l, !.start = st]) :
        q \in StringArg({EmptyStr, <<"type=page">>}),
        l \in NumberArg({2 * FloatDen + 1}),
        st \in NumberArg({0 - FloatDen}) }

CreateBags ==
    {RawNil, RawNotMap} \cup
    { RawMap([NoArgs EXCEPT !.title = t, !.spaceKey = k, !.content = c,
                            !.type = ty, !.parentId = par]) :
        t \in StringArg({EmptyStr, NewTitle}),
        k \in StringArg({EmptyStr, SpaceTS}),
        c \in StringArg({EmptyStr, NewContent}),
        ty \in StringArg({EmptyStr, BlogType}),
        par \in StringArg({EmptyStr, TheId}) }

\* update-content: every contentId with and without a version; and, for one
\* valid contentId, every combination of the other arguments.
UpdateBags ==
    {RawNil, RawNotMap} \cup
    { RawMap([NoArgs EXCEPT !.contentId = id, !.version = v]) :
        id \in StringArg(ContentIds),
        v \in {None, Some(AnyNum(FloatDen))} } \cup
    { RawMap([NoArgs EXCEPT !.contentId = Some(AnyStr(TheId)), !.version = v,
                            !.title = t, !.content = c]) :
        v \in NumberArg(Floats),
        t \in TextArg(NewTitle),
        c \in TextArg(NewContent) } \cup
    { RawMap([NoArgs EXCEPT !.contentId = Some(AnyStr(TheId)),
                            !.versionComment = Some(AnyStr(<<"why">>)),
                            !.limit = l]) :
        l \in NumberArg({2 * FloatDen + 1}) }

\* Search texts: plain, with a double quote, ending in a backslash, and with
\* a backslash before a double quote.
SearchTexts ==
    { <<"a">>, <<"a", "\"", "b">>, <<"a", "\\">>, <<"\\", "\"", "b">> }

ListBags ==
    {RawNil, RawNotMap} \cup
    { RawMap([NoArgs EXCEPT !.searchText = t, !.limit = l]) :
        t \in StringArg({EmptyStr} \cup SearchTexts),
        l \in NumberArg({2 * FloatDen + 1}) }

\* Endpoint inputs: with and without a scheme, with and without the API
\* root, with other schemes, and ones url.Parse rejects or reads as opaque.
Endpoints ==
    { <<"h">>,
      <<"h", "/", "wiki", "/">>,
      <<"h", "/", "rest", "/", "api">>,
      <<"http", "s", ":", "/", "/", "h">>,
      <<"http", ":", "/", "/", "h", "/", "rest", "/", "api">>,
      <<"http", "s", ":", "/", "/", "h", "/", "rest", "/", "api", "/">>,
      <<"http", "s", ":", "/", "/", "h", "/", "rest", "/", "api", "/", "v2">>,
      <<"http", "s", ":", "/", "/", "h", "/", "rest", "/", "api", "x">>,
      <<"http", "s", ":", "/", "/", "h", "/", "wiki", "/", "rest", "/", "api",
        "/", "rest", "/", "api">>,
      <<"ftp", ":", "/", "/", "h">>,
      <<"http", "x", ":", "/", "/", "h">>,
      <<"HTTP", ":", "/", "/", "h">>,
      <<":", "/", "/", "h">>,
      <<"http", "s", ":", "/", "/", "h", "\t">>,
      <<"http", ":", "h", ":", "/", "/", "x">> }

\* The environments a process starts in.
Environs ==
    { Environ(token, baseURL, apiBasePath, host) :
        token \in {EmptyStr, <<"tok">>},
        baseURL \in {EmptyStr} \cup Endpoints,
        apiBasePath \in {EmptyStr, <<"g", "/", "x">>, <<"ftp", ":", "/", "/", "g">>},
        host \in {EmptyStr, <<"k">>, <<"http", "x", ":", "/", "/", "k">>} }

\* The environment of the serving process.
ServingEnv ==
    Environ(<<"tok">>, <<"http", "s", ":", "/", "/", "h">>, EmptyStr, EmptyStr)

\* ------------------------------------------------------------- actions

\* A process start: nothing loaded yet, serve not called, run not returned.
Start(env) ==
    [env |-> env, out |-> None, prev |-> None, served |-> <<>>, ret |-> None]

ErrConfiguration == "configuration error: %v"
ErrServer == "server error: %v"

\* NewConfluenceClient: the client holds the configuration it was given.
NewConfluenceClient(cfg) == [config |-> cfg]

\* setupServer: a server with the five tools, each bound to the client.
setupServer(client) == [client |-> client, tools |-> Ops]

\* run that sets up and serves whatever loadConfig returned.
run_IgnoreErr(r) ==
    LET cfg == IF r.err = NoErr THEN Get(r.cfg)
               ELSE [BaseURL |-> EmptyStr, Token |-> EmptyStr]
    IN  [ret |-> None, served |-> <<setupServer(NewConfluenceClient(cfg))>>]

\* run up to its call of serve, on loadConfig's result r: what it has
\* returned by then (nothing while serve runs), and the servers it has passed
\* to serve.
run(r) ==
    IF r.err # NoErr
        THEN [ret |-> Some([ctx |-> ErrConfiguration, err |-> r.err]),
              served |-> <<>>]
        ELSE LET client == NewConfluenceClient(Get(r.cfg))
                 s == setupServer(client)
             IN  [ret |-> None, served |-> <<s>>]

\* run once serve has returned e.
runReturn(e) ==
    IF e # NoErr THEN [ctx |-> ErrServer, err |-> e] ELSE [ctx |-> "nil", err |-> NoErr]

\* What serve can return: nil when the transport closes, or its error.
ServeErrors == {NoErr, ErrOf("serve failed")}

\* The process start of environment env with run inside serve.
Started(env, prev) ==
    LET r == loadConfig(env)
        ran == run(r)
    IN  [env |-> env, out |-> Some(r), prev |-> prev,
         served |-> ran.served, ret |-> ran.ret]

\* serve is running: it was called and run has not returned.
Serving == startup.served # <<>> /\ startup.ret = None

\* The server serves: the process has started, and a client exists.
Init ==
    /\ startup = Started(ServingEnv, None)
    /\ config \in Configs
    /\ remote \in InitialItems
    /\ created = 0
    /\ extWrites = 0
    /\ pc = [i \in Inv |-> "idle"]
    /\ op = [i \in Inv |-> "none"]
    /\ raw = [i \in Inv |-> RawNil]
    /\ calls = [i \in Inv |-> <<>>]
    /\ result = [i \in Inv |-> None]

\* A request just sent: no outcome yet.
Pending(req) ==
    [req |-> req, out |-> None, epoch |-> 0, applied |-> FALSE, closes |-> 0]

\* doRequest or getJSON has returned on the last request of invocation i,
\* having closed its response body n times.
Returned(i, n) ==
    [calls EXCEPT ![i][Len(calls[i])] = [@ EXCEPT !.closes = @ + n]]

\* The handler acts on decision d: it returns, or it sends and waits.
DecideFrom(cs, i, d) ==
    IF IsSome(d.ret)
        THEN /\ pc' = [pc EXCEPT ![i] = "done"]
             /\ result' = [result EXCEPT ![i] = d.ret]
             /\ calls' = cs
        ELSE /\ pc' = [pc EXCEPT ![i] = "wait"]
             /\ calls' = [cs EXCEPT ![i] = Append(@, Pending(Get(d.req)))]
             /\ result' = result

Decide(i, d) == DecideFrom(calls, i, d)

\* The caller invokes operation o with argument container r.
Invoke(i, o, r, decisions) ==
    /\ pc[i] = "idle"
    /\ Serving
    /\ op' = [op EXCEPT ![i] = o]
    /\ raw' = [raw EXCEPT ![i] = r]
    /\ \E d \in decisions : Decide(i, d)
    /\ UNCHANGED <<startup, config, remote, created, extWrites>>

GetContent(i) ==
    \E r \in GetBags : Invoke(i, "get-content", r, handleGetContent(config, r))

SearchContent(i) ==
    \E r \in SearchBags :
        Invoke(i, "search-content", r, handleSearchContent(config, r))

CreateContent(i) ==
    \E r \in CreateBags :
        Invoke(i, "create-content", r, handleCreateContent(config, r))

UpdateContent(i) ==
    \E r \in UpdateBags :
        Invoke(i, "update-content", r, handleUpdateContent(config, r))

ListSpaces(i) ==
    \E r \in ListBags : Invoke(i, "list-spaces", r, handleListSpaces(config, r))

\* The call the invocation waits on, and whether its outcome has arrived.
LastCall(i) == calls[i][Len(calls[i])]
Waiting(i) == pc[i] = "wait" /\ ~IsSome(LastCall(i).out)
Answered(i) == pc[i] = "wait" /\ IsSome(LastCall(i).out)

\* httpClient.Do returns outcome out; applied: the remote carried the
\* request out.
Deliver(i, out, applied) ==
    calls' = [calls EXCEPT ![i][Len(calls[i])] =
                 [@ EXCEPT !.out = Some(out), !.epoch = extWrites,
                           !.applied = applied]]

\* The remote answers a GET: any status, a JSON object (the item) or some
\* other text, the body whole or cut short.
RemoteGet(i) ==
    /\ Waiting(i)
    /\ LastCall(i).req.method = "GET"
    /\ \E st \in Statuses, b \in {JsonBody(remote), TextBody}, dl \in Deliveries :
           Deliver(i, Response(st, b, dl), FALSE)
    /\ UNCHANGED <<startup, config, remote, created, extWrites, pc, op, raw, result>>

\* The remote accepts a PUT and stores the submitted item.
RemotePutAccept(i) ==
    /\ Waiting(i)
    /\ LastCall(i).req.method = "PUT"
    /\ remote' = ApplyPut(remote, Get(LastCall(i).req.body))
    /\ \E st \in OkStatuses, dl \in Deliveries :
           Deliver(i, Response(st, JsonBody(remote'), dl), TRUE)
    /\ UNCHANGED <<startup, config, created, extWrites, pc, op, raw, result>>

\* The remote accepts a POST and creates an item.
RemotePostAccept(i) ==
    /\ Waiting(i)
    /\ LastCall(i).req.method = "POST"
    /\ created' = created + 1
    /\ \E st \in OkStatuses, dl \in Deliveries :
           Deliver(i, Response(st,
                       JsonBody([Get(LastCall(i).req.body) EXCEPT
                                     !.id = Some(TheId)]), dl), TRUE)
    /\ UNCHANGED <<startup, config, remote, extWrites, pc, op, raw, result>>

\* The remote rejects a PUT or a POST: an error status, nothing stored.
RemoteReject(i) ==
    /\ Waiting(i)
    /\ LastCall(i).req.method \in {"PUT", "POST"}
    /\ \E st \in ErrStatuses, dl \in Deliveries :
           Deliver(i, Response(st, TextBody, dl), FALSE)
    /\ UNCHANGED <<startup, config, remote, created, extWrites, pc, op, raw, result>>

\* The request fails in transit (refused, reset, timed out, cancelled) before
\* it reaches the remote.
NetworkFailure(i) ==
    /\ Waiting(i)
    /\ Deliver(i, NetFailure, FALSE)
    /\ UNCHANGED <<startup, config, remote, created, extWrites, pc, op, raw, result>>

\* The remote carries a PUT out and the response is lost in transit.
ResponseLost(i) ==
    /\ Waiting(i)
    /\ LastCall(i).req.method = "PUT"
    /\ remote' = ApplyPut(remote, Get(LastCall(i).req.body))
    /\ Deliver(i, NetFailure, TRUE)
    /\ UNCHANGED <<startup, config, created, extWrites, pc, op, raw, result>>

\* Another writer changes the item on the remote while an invocation is under
\* way (a change before it starts is another initial item; one after it has
\* returned is not seen by it).
ExternalWrite ==
    /\ extWrites < MaxExternalWrites
    /\ \E i \in Inv : pc[i] = "wait"
    /\ remote' = ExternalEdit(remote)
    /\ extWrites' = extWrites + 1
    /\ UNCHANGED <<startup, config, created, pc, op, raw, calls, result>>

\* A handler with one request returns on its outcome.
ReturnOf(o, out) ==
    IF o = "get-content" THEN handleGetContentReturn(out)
    ELSE IF o = "search-content" THEN handleSearchContentReturn(out)
    ELSE IF o = "create-content" THEN handleCreateContentReturn(out)
    ELSE IF o = "list-spaces" THEN handleListSpacesReturn(out)
    ELSE handleUpdateContentReturn(out)

HandlerReturn(i) ==
    /\ Answered(i)
    /\ op[i] = "update-content" => Len(calls[i]) = 2
    /\ pc' = [pc EXCEPT ![i] = "done"]
    /\ result' = [result EXCEPT ![i] =
                     Some(ReturnOf(op[i], Get(LastCall(i).out)))]
    /\ calls' = Returned(i, doRequestCloses(Get(LastCall(i).out)))
    /\ UNCHANGED <<startup, config, remote, created, extWrites, op, raw>>

\* update-content goes on from the outcome of its GET.
UpdateAfterGet(i) ==
    /\ Answered(i)
    /\ op[i] = "update-content"
    /\ Len(calls[i]) = 1
    /\ \E d \in handleUpdateContentAfterGet(config, raw[i],
                                            Get(LastCall(i).out)) :
           DecideFrom(Returned(i, getJSONCloses(Get(LastCall(i).out))), i, d)
    /\ UNCHANGED <<startup, config, remote, created, extWrites, op, raw>>

Step(i) ==
    \/ GetContent(i)
    \/ SearchContent(i)
    \/ CreateContent(i)
    \/ UpdateContent(i)
    \/ ListSpaces(i)
    \/ RemoteGet(i)
    \/ RemotePutAccept(i)
    \/ RemotePostAccept(i)
    \/ RemoteReject(i)
    \/ NetworkFailure(i)
    \/ ResponseLost(i)
    \/ UpdateAfterGet(i)
    \/ HandlerReturn(i)

\* One invocation against the remote and its other writers.
Next == Step("a") \/ ExternalWrite

Spec == Init /\ [][Next]_vars

\* ------------------------------------------------------------ progress

\* httpClient.Do returns for the request in flight: the remote answers, or
\* the request fails, times out (the client's 30 s Timeout) or is cancelled.
RemoteAnswers(i) ==
    \/ RemoteGet(i)
    \/ RemotePutAccept(i)
    \/ RemotePostAccept(i)
    \/ RemoteReject(i)
    \/ NetworkFailure(i)
    \/ ResponseLost(i)

\* A served process whose remote holds an item at version 1.
InitLive ==
    /\ Init
    /\ IsSome(remote.version)
    /\ Get(remote.version).Number = 1

\* The handler's goroutine can run on: httpClient.Do has returned and the
\* handler has a next step.  This is ENABLED of UpdateAfterGet(i) \/
\* HandlerReturn(i), written as a state predicate.
HandlerEnabled(i) ==
    /\ Answered(i)
    /\ (op[i] = "update-content" /\ Len(calls[i]) = 1) =>
           handleUpdateContentAfterGet(config, raw[i], Get(LastCall(i).out)) # {}

\* Every remote call eventually returns (weak fairness of RemoteAnswers), and
\* a handler that can run on does (weak fairness of its step: each step
\* ends HandlerEnabled, so it is "infinitely often not enabled").
SpecLive ==
    /\ InitLive
    /\ [][Next]_vars
    /\ WF_vars(RemoteAnswers("a"))
    /\ []<>(~HandlerEnabled("a"))

\* --------------------------------------------- two concurrent updates

\* Two update-content invocations on the same item, neither with a version
\* argument, each with a title of its own choice.
RaceBags ==
    { RawMap([NoArgs EXCEPT !.contentId = Some(AnyStr(TheId)),
                            !.title = Some(AnyStr(t))]) :
        t \in {NewTitle, OtherTitle} }

UpdateRace(i) ==
    \E r \in RaceBags :
        Invoke(i, "update-content", r, handleUpdateContent(config, r))

\* A remote with optimistic locking: it accepts a PUT only when the submitted
\* version is its current version plus one, and rejects any other.
RemotePutStrict(i) ==
    /\ Waiting(i)
    /\ LastCall(i).req.method = "PUT"
    /\ LET doc == Get(LastCall(i).req.body)
           next == IsSome(remote.version) /\ IsSome(doc.version) /\
                   Get(doc.version).Number = Get(remote.version).Number + 1
       IN  IF next
               THEN /\ remote' = ApplyPut(remote, doc)
                    /\ \E st \in OkStatuses, dl \in Deliveries :
                           Deliver(i, Response(st, JsonBody(remote'), dl), TRUE)
               ELSE /\ remote' = remote
                    /\ \E st \in ErrStatuses, dl \in Deliveries :
                           Deliver(i, Response(st, TextBody, dl), FALSE)
    /\ UNCHANGED <<startup, config, created, extWrites, pc, op, raw, result>>

\* A served process with a usable base URL; the remote item is at version 1.
InitRace ==
    /\ InitLive
    /\ UrlParse(config.BaseURL).ok

StepRace(i) ==
    \/ UpdateRace(i)
    \/ RemoteGet(i)
    \/ RemotePutStrict(i)
    \/ NetworkFailure(i)
    \/ UpdateAfterGet(i)
    \/ HandlerReturn(i)

NextRace == \E i \in Inv : StepRace(i)

SpecRace == InitRace /\ [][NextRace]_vars

\* ---------------------------------------- executeRequest called directly

\* Direct calls of executeRequest: method, path and body.
DirectCalls ==
    { [method |-> "GET", path |-> <<"/", "path">>, body |-> None],
      [method |-> "POST", path |-> <<"/", "path">>, body |-> Some(Unmarshalable)],
      [method |-> "POST", path |-> <<"/", "content">>,
       body |-> Some([ZeroPage EXCEPT !.Title = <<"t">>])],
      [method |-> MalformedMethod, path |-> <<"/", "path">>, body |-> None] }

\* A caller calls executeRequest: it returns an error at once, or sends.
ExecuteRequest(i) ==
    /\ pc[i] = "idle"
    /\ \E c \in DirectCalls :
           LET b == BuildRequest(config, c.method, c.path, EmptyQuery, c.body)
           IN  /\ op' = [op EXCEPT ![i] = "executeRequest"]
               /\ raw' = [raw EXCEPT ![i] = c]
               /\ Decide(i, IF b.err # NoErr
                                THEN [ret |-> Some([resp |-> None, err |-> b.err]),
                                      req |-> None]
                                ELSE Go(Get(b.req)))
    /\ UNCHANGED <<startup, config, remote, created, extWrites>>

\* httpClient.Do has returned: executeRequest returns the response or the
\* send error.
ExecuteRequestReturn(i) ==
    /\ Answered(i)
    /\ LET out == Get(LastCall(i).out)
       IN  result' = [result EXCEPT ![i] =
               Some([resp |-> IF executeRequest(out) = NoErr THEN Some(out)
                              ELSE None,
                     err |-> executeRequest(out)])]
    /\ pc' = [pc EXCEPT ![i] = "done"]
    /\ UNCHANGED <<startup, config, remote, created, extWrites, op, raw, calls>>

NextTransport ==
    \/ ExecuteRequest("a")
    \/ RemoteGet("a")
    \/ RemotePostAccept("a")
    \/ RemoteReject("a")
    \/ NetworkFailure("a")
    \/ ExecuteRequestReturn("a")

SpecTransport == Init /\ [][NextTransport]_vars

\* ------------------------------------------------------ the process start

\* Before run: no client, no request, no result.
InitConfig ==
    /\ startup \in {Start(env) : env \in Environs}
    /\ config = [BaseURL |-> EmptyStr, Token |-> EmptyStr]
    /\ remote = ZeroDoc
    /\ created = 0
    /\ extWrites = 0
    /\ pc = [i \in Inv |-> "idle"]
    /\ op = [i \in Inv |-> "none"]
    /\ raw = [i \in Inv |-> RawNil]
    /\ calls = [i \in Inv |-> <<>>]
    /\ result = [i \in Inv |-> None]

\* The client a process start has built, if any.
ClientConfig(st) ==
    IF st.served # <<>> THEN st.served[1].client.config ELSE config

\* run: loadConfig, and on success the client, the server and the call of
\* serve.
LoadConfig ==
    /\ startup.out = None
    /\ startup' = Started(startup.env, None)
    /\ config' = ClientConfig(startup')
    /\ UNCHANGED <<remote, created, extWrites, pc, op, raw, calls, result>>

\* The served process is sent a tool call with no arguments.
ServedCall ==
    /\ Serving
    /\ \E o \in startup.served[1].tools :
           LET decisions ==
                   CASE o = "get-content" -> handleGetContent(config, RawNil)
                     [] o = "search-content" -> handleSearchContent(config, RawNil)
                     [] o = "create-content" -> handleCreateContent(config, RawNil)
                     [] o = "update-content" -> handleUpdateContent(config, RawNil)
                     [] o = "list-spaces" -> handleListSpaces(config, RawNil)
           IN  Invoke("a", o, RawNil, decisions)

\* serve returns, and run with it.
ServeReturns ==
    /\ Serving
    /\ \E e \in ServeErrors :
           startup' = [startup EXCEPT !.ret = Some(runReturn(e))]
    /\ UNCHANGED <<config, remote, created, extWrites, pc, op, raw, calls, result>>

\* The process is started again with CONFLUENCE_BASE_URL set to the base URL
\* the start before resolved.
Restart ==
    /\ startup.out # None
    /\ startup.prev = None
    /\ Get(startup.out).err = NoErr
    /\ LET env == [startup.env EXCEPT
                       !.CONFLUENCE_BASE_URL = Get(Get(startup.out).cfg).BaseURL]
       IN  startup' = Started(env, startup.out)
    /\ config' = ClientConfig(startup')
    /\ UNCHANGED <<remote, created, extWrites, pc, op, raw, calls, result>>

NextConfig == LoadConfig \/ ServedCall \/ ServeReturns \/ Restart

SpecConfig == InitConfig /\ [][NextConfig]_vars

\* ------------------------------------------------------------ properties

\* Invocation i is an update-content that has sent its PUT.
IsUpdate(i) == op[i] = "update-content"
PutSent(i) == IsUpdate(i) /\ Len(calls[i]) = 2
Done(i) == pc[i] = "done"
Res(i) == Get(result[i]).res

\* The call has an outcome and it is a success of getJSON: a response with
\* status < 400 whose body decoded.
GetSucceeded(c) ==
    /\ IsSome(c.out)
    /\ Get(c.out).net = "ok"
    /\ Get(c.out).status < 400
    /\ Get(c.out).body.json
    /\ Get(c.out).delivery # "cut_in_value"

\* The item update-content's GET fetched, the item its PUT submitted, and its
\* arguments.
FetchedDoc(i) == Get(Get(calls[i][1].out).body.doc)
SubmittedDoc(i) == Get(calls[i][2].req.body)
ArgsOf(i) == raw[i].m
IsNumeric(a) == IsSome(a) /\ Get(a).t = "num"
IsString(a) == IsSome(a) /\ Get(a).t = "str"

\* C1: within one update-content invocation a PUT is issued only after that
\* invocation's GET has completed successfully (status < 400, body decoded);
\* never before it and never without it.
C1_PutOnlyAfterSuccessfulGet ==
    \A i \in Inv : \A k \in 1..Len(calls[i]) :
        calls[i][k].req.method = "PUT" =>
            /\ k > 1
            /\ calls[i][k - 1].req.method = "GET"
            /\ GetSucceeded(calls[i][k - 1])

C1_Witness ==
    \E i \in Inv : PutSent(i) /\ calls[i][2].req.method = "PUT"

\* s is the float64 n / FloatDen truncated toward zero.
IsTruncationOf(s, n) ==
    IF n >= 0 THEN s >= 0 /\ s * FloatDen <= n /\ n < (s + 1) * FloatDen
    ELSE s <= 0 /\ (s - 1) * FloatDen < n /\ n <= s * FloatDen

\* The float64 n / FloatDen truncates to a value of int.
TruncatesIntoInt(n) ==
    n > (MinInt - 1) * FloatDen /\ n < (MaxInt + 1) * FloatDen

SubmittedVersion(i) == Get(SubmittedDoc(i).version).Number

\* C2 (as amended): without a numeric version argument and with a fetched
\* version n, update-content submits the Go int n + 1, which wraps to the
\* minimum int at the maximum int; with a numeric version argument v that
\* truncates into int it submits v truncated toward zero, whatever the
\* fetched version is.
C2_SubmittedVersionTruncatesOrIncrements ==
    \A i \in Inv : PutSent(i) =>
        LET v == ArgsOf(i).version
            fetched == FetchedDoc(i).version
        IN  /\ (IsNumeric(v) /\ TruncatesIntoInt(Get(v).n)) =>
                   IsTruncationOf(SubmittedVersion(i), Get(v).n)
            /\ (~IsNumeric(v) /\ IsSome(fetched)) =>
                   SubmittedVersion(i) =
                       (IF Get(fetched).Number = MaxInt THEN MinInt
                        ELSE Get(fetched).Number + 1)

\* A PUT sent for a version argument that is not a whole number.
C2_Witness ==
    \E i \in Inv :
        /\ PutSent(i)
        /\ IsNumeric(ArgsOf(i).version)
        /\ TruncatesIntoInt(Get(ArgsOf(i).version).n)
        /\ Get(ArgsOf(i).version).n % FloatDen # 0

\* C2 as claimed: n + 1 without a numeric version argument, exactly v with a
\* numeric version argument v.
C2_SubmittedVersionExact ==
    \A i \in Inv : PutSent(i) =>
        LET v == ArgsOf(i).version
            fetched == FetchedDoc(i).version
        IN  /\ IsNumeric(v) => SubmittedVersion(i) * FloatDen = Get(v).n
            /\ (~IsNumeric(v) /\ IsSome(fetched)) =>
                   SubmittedVersion(i) = Get(fetched).Number + 1

\* The required argument a is missing, not a string, or empty.
BadRequired(a) == ~IsString(a) \/ Get(a).s = EmptyStr

HasSlash(x) == \E k \in 1..Len(x) : x[k] = "/"
HasDotDot(x) == \E k \in 1..(Len(x) - 1) : x[k] = "." /\ x[k + 1] = "."

\* The arguments of a get-content or update-content fail validation.
InvalidContentIdInput(i) ==
    \/ raw[i].kind = "notmap"
    \/ BadRequired(ArgsOf(i).contentId)
    \/ HasSlash(Get(ArgsOf(i).contentId).s)
    \/ HasDotDot(Get(ArgsOf(i).contentId).s)

\* doRequest does not return the bytes of this outcome.
RequestFailed(out) ==
    out.net = "failed" \/ out.status >= 400 \/ out.delivery # "full"

\* C3: an update-content invocation issues at most one GET and at most one
\* PUT; a failure of validation, of the GET or of the version computation ends
\* it with an error result and no PUT; a failed GET or PUT is not retried.
C3_UpdateSingleShotNoRetry ==
    \A i \in Inv : IsUpdate(i) =>
        /\ Len(calls[i]) <= 2
        /\ \A k \in 1..Len(calls[i]) :
               /\ calls[i][k].req.method = "GET" <=> k = 1
               /\ calls[i][k].req.method = "PUT" <=> k = 2
        /\ InvalidContentIdInput(i) =>
               Done(i) /\ Res(i).isError /\ calls[i] = <<>>
        /\ (Len(calls[i]) >= 1 /\ IsSome(calls[i][1].out)
                /\ ~GetSucceeded(calls[i][1])) =>
               Len(calls[i]) = 1 /\ (Done(i) => Res(i).isError)
        /\ (Len(calls[i]) >= 1 /\ GetSucceeded(calls[i][1])
                /\ ~IsNumeric(ArgsOf(i).version)
                /\ ~IsSome(FetchedDoc(i).version)) =>
               Len(calls[i]) = 1 /\ (Done(i) => Res(i).isError)
        /\ (Len(calls[i]) = 2 /\ IsSome(calls[i][2].out)
                /\ RequestFailed(Get(calls[i][2].out))) =>
               (Done(i) => Res(i).isError)

\* An update-content that has returned after its GET failed.
C3_Witness ==
    \E i \in Inv :
        /\ IsUpdate(i) /\ Done(i) /\ Len(calls[i]) = 1
        /\ ~GetSucceeded(calls[i][1])
        /\ Res(i).isError

\* No other writer has changed the item since update-content's GET was
\* answered.
NoWriteSinceGet(i) == extWrites = calls[i][1].epoch

\* C4 (as amended): when update-content returns the error of a PUT that the
\* remote answered with a status >= 400, and no other writer has changed the
\* item since the GET, the remote item is the item the GET fetched.
C4_RejectedPutLeavesFetchedState ==
    \A i \in Inv :
        (/\ PutSent(i) /\ Done(i)
         /\ Res(i).isError /\ Res(i).err.kind = ErrAPI
         /\ NoWriteSinceGet(i)) =>
            remote = FetchedDoc(i)

C4_Witness ==
    \E i \in Inv :
        /\ PutSent(i) /\ Done(i)
        /\ Res(i).isError /\ Res(i).err.kind = ErrAPI
        /\ Get(calls[i][2].out).status >= 400
        /\ NoWriteSinceGet(i)

\* C4 as claimed: whenever update-content returns an error after its PUT, the
\* remote item is the item the GET fetched, other writers or not.
C4_FailedPutLeavesFetchedState ==
    \A i \in Inv :
        (PutSent(i) /\ Done(i) /\ Res(i).isError) => remote = FetchedDoc(i)

\* C5: the submitted title is the fetched title when the title argument is
\* absent; the submitted body is the fetched body, or no body field when there
\* is none, when the content argument is absent; the submitted id is the
\* contentId argument, and kind and space are the fetched ones.
C5_AbsentFieldsCopiedFromFetched ==
    \A i \in Inv : PutSent(i) =>
        LET sub == SubmittedDoc(i)
            fetched == FetchedDoc(i)
        IN  /\ ~IsSome(ArgsOf(i).title) =>
                   OrEmpty(sub.title) = OrEmpty(fetched.title)
            /\ ~IsSome(ArgsOf(i).content) => sub.body = fetched.body
            /\ sub.id = Some(Get(ArgsOf(i).contentId).s)
            /\ OrEmpty(sub.type) = OrEmpty(fetched.type)
            /\ sub.space = fetched.space

\* A PUT sent without title and content arguments for a fetched item that has
\* a body.
C5_Witness ==
    \E i \in Inv :
        /\ PutSent(i)
        /\ ~IsSome(ArgsOf(i).title) /\ ~IsSome(ArgsOf(i).content)
        /\ IsSome(FetchedDoc(i).body)
        /\ SubmittedDoc(i).body = FetchedDoc(i).body

\* The version computation of update-content has nothing to compute from.
NoVersionSource(i) ==
    ~IsNumeric(ArgsOf(i).version) /\ ~IsSome(FetchedDoc(i).version)

\* C6: after a successful GET, update-content ends with the error "could not
\* determine current version from API response" and without a PUT exactly
\* when there is no numeric version argument and the fetched item has no
\* version block; with a numeric version argument it goes on to the PUT.
C6_NoVersionErrorIffNoSource ==
    \A i \in Inv :
        (IsUpdate(i) /\ Len(calls[i]) >= 1 /\ GetSucceeded(calls[i][1])) =>
            /\ NoVersionSource(i) => Len(calls[i]) = 1
            /\ (NoVersionSource(i) /\ Done(i)) =>
                   Res(i).isError /\ Res(i).ctx = MsgNoVersion
            /\ (~NoVersionSource(i) /\ Done(i)) =>
                   Len(calls[i]) = 2 /\ Res(i).ctx # MsgNoVersion

C6_Witness ==
    \E i \in Inv :
        /\ IsUpdate(i) /\ Done(i) /\ Len(calls[i]) = 1
        /\ GetSucceeded(calls[i][1])
        /\ Res(i).isError /\ Res(i).ctx = MsgNoVersion

\* C7 as claimed: the version number update-content submits is positive.
C7_SubmittedVersionPositive ==
    \A i \in Inv : PutSent(i) => SubmittedVersion(i) > 0

\* C8: get-content and update-content return an error result for every
\* contentId that contains "/" or "..", and send no request.
C8_TraversalContentIdRejected ==
    \A i \in Inv :
        (/\ op[i] \in {"get-content", "update-content"}
         /\ raw[i].kind = "map"
         /\ IsString(ArgsOf(i).contentId)
         /\ \/ HasSlash(Get(ArgsOf(i).contentId).s)
            \/ HasDotDot(Get(ArgsOf(i).contentId).s)) =>
            Done(i) /\ Res(i).isError /\ calls[i] = <<>>

C8_Witness ==
    \E i \in Inv :
        /\ op[i] = "get-content"
        /\ IsString(ArgsOf(i).contentId)
        /\ Get(ArgsOf(i).contentId).s = <<".", ".">>
        /\ Done(i) /\ Res(i).isError /\ Res(i).ctx = MsgBadContentId

\* The arguments of invocation i fail extraction or validation.
InvalidInput(i) ==
    \/ raw[i].kind = "notmap"
    \/ op[i] \in {"get-content", "update-content"} /\ InvalidContentIdInput(i)
    \/ op[i] = "search-content" /\ BadRequired(ArgsOf(i).cql)
    \/ op[i] = "create-content"
           /\ \/ BadRequired(ArgsOf(i).title)
              \/ BadRequired(ArgsOf(i).spaceKey)
              \/ BadRequired(ArgsOf(i).content)

\* A transport failure of call k of invocation i: no response, a status
\* >= 400, a body cut short, or (for the GET of update-content, which is
\* decoded) a body that does not decode.
TransportFailed(i, k) ==
    /\ IsSome(calls[i][k].out)
    /\ \/ RequestFailed(Get(calls[i][k].out))
       \/ IsUpdate(i) /\ k = 1 /\ ~Get(calls[i][k].out).body.json

\* C9 as claimed: every handler, on every failure of extraction, validation
\* or transport, returns an is-error result and a nil error.
C9_EveryFailureIsErrorResult ==
    \A i \in Inv : Done(i) =>
        /\ Get(result[i]).err = NoErr
        /\ (InvalidInput(i) \/ \E k \in 1..Len(calls[i]) : TransportFailed(i, k))
               => Res(i).isError

\* C10 as claimed: a response with status >= 400 to any request surfaces as
\* an error result that carries the status code, and a response body shorter
\* than declared surfaces as an error result.
C10_ErrorStatusAndShortBodySurface ==
    \A i \in Inv : Done(i) =>
        \A k \in 1..Len(calls[i]) :
            LET out == Get(calls[i][k].out)
            IN  out.net = "ok" =>
                    /\ out.status >= 400 =>
                           /\ Res(i).isError
                           /\ Res(i).err.kind = ErrAPI
                           /\ Res(i).err.status = out.status
                    /\ out.delivery # "full" => Res(i).isError

\* The operations that only read.
ReadOps == {"get-content", "search-content", "list-spaces"}

\* C11: every request of get-content, search-content and list-spaces is a GET
\* without a body, which the remote carries out without changing its state;
\* a POST comes only from create-content and a PUT only from update-content.
C11_ReadsSendOnlyGet ==
    \A i \in Inv : \A k \in 1..Len(calls[i]) :
        LET c == calls[i][k]
        IN  /\ op[i] \in ReadOps =>
                   c.req.method = "GET" /\ c.req.body = None /\ ~c.applied
            /\ c.req.method = "POST" => op[i] = "create-content"
            /\ c.req.method = "PUT" => op[i] = "update-content"
            /\ c.req.method \in {"GET", "POST", "PUT"}

\* A list-spaces that returned the remote's answer to its GET.
C11_Witness ==
    \E i \in Inv :
        /\ op[i] = "list-spaces" /\ Done(i) /\ ~Res(i).isError
        /\ Len(calls[i]) = 1 /\ calls[i][1].req.method = "GET"

\* loadConfig has returned, and what it returned.
Loaded == startup.out # None
LoadedOut == Get(startup.out)
LoadedOk == Loaded /\ LoadedOut.err = NoErr
LoadedURL == Get(LoadedOut.cfg).BaseURL

\* The first non-empty string of a sequence of strings, or "".
FirstNonEmpty(ss) ==
    IF \E k \in 1..Len(ss) : ss[k] # EmptyStr
        THEN ss[CHOOSE k \in 1..Len(ss) :
                    ss[k] # EmptyStr /\ \A m \in 1..(k - 1) : ss[m] = EmptyStr]
        ELSE EmptyStr

\* The endpoint inputs in their priority order.
EndpointSources(env) ==
    <<env.CONFLUENCE_BASE_URL, env.CONFLUENCE_API_BASE_PATH, env.CONFLUENCE_HOST>>

\* C12: loadConfig resolves the first non-empty of CONFLUENCE_BASE_URL,
\* CONFLUENCE_API_BASE_PATH and CONFLUENCE_HOST: its result is the result for
\* that input alone, whatever the inputs after it hold; and it fails when all
\* three are empty or the token is empty.
C12_EndpointFromFirstNonEmpty ==
    Loaded =>
        LET env == startup.env
            chosen == FirstNonEmpty(EndpointSources(env))
        IN  /\ LoadedOut = loadConfig(Environ(env.CONFLUENCE_API_TOKEN, chosen,
                                              EmptyStr, EmptyStr))
            /\ (env.CONFLUENCE_API_TOKEN = EmptyStr \/ chosen = EmptyStr) =>
                   LoadedOut.err # NoErr /\ LoadedOut.cfg = None

\* CONFLUENCE_BASE_URL is empty, the two inputs after it are not, and the
\* resolved base URL is that of CONFLUENCE_API_BASE_PATH.
C12_Witness ==
    /\ LoadedOk
    /\ startup.prev = None
    /\ startup.env.CONFLUENCE_BASE_URL = EmptyStr
    /\ startup.env.CONFLUENCE_API_BASE_PATH = <<"g", "/", "x">>
    /\ startup.env.CONFLUENCE_HOST # EmptyStr
    /\ UrlParse(LoadedURL).Host = <<"g">>

\* C13 as claimed: the base URL of every configuration loadConfig returns has
\* the scheme http or https.
C13_SchemeHttpOrHttps ==
    LoadedOk => UrlParse(LoadedURL).Scheme \in {<<"http">>, <<"http", "s">>}

\* How many times sub occurs in s.
Occurrences(s, sub) ==
    Cardinality({k \in 0..(Len(s) - Len(sub)) :
                     SubSeq(s, k + 1, k + Len(sub)) = sub})

HasSuffix(s, suffix) == TrimSuffix(s, suffix) # s \/ suffix = <<>>

\* C14 as claimed: the path of the base URL of every configuration loadConfig
\* returns holds /rest/api exactly once, at its end.
C14_ApiRootOnceAtEnd ==
    LoadedOk =>
        /\ Occurrences(UrlParse(LoadedURL).Path, ApiRoot) = 1
        /\ HasSuffix(UrlParse(LoadedURL).Path, ApiRoot)

\* C15: an endpoint that ends in /rest/api, with or without a slash after it,
\* is resolved to itself (with the scheme it has, or https), not to a URL
\* with a second /rest/api; and a start with the base URL the start before
\* resolved resolves the same configuration.
C15_ApiRootNormalizationIdempotent ==
    LoadedOk =>
        LET chosen == FirstNonEmpty(EndpointSources(startup.env))
        IN  /\ (HasSuffix(chosen, ApiRoot) \/ HasSuffix(chosen, ApiRoot \o <<"/">>))
                   => LoadedURL \in {LowerAll(chosen), HttpsPrefix \o chosen}
            /\ startup.prev # None => startup.out = startup.prev

\* The host input was resolved to https://k/rest/api, and the start with that
\* base URL resolved it again.
C15_Witness ==
    /\ LoadedOk
    /\ startup.prev # None
    /\ startup.env.CONFLUENCE_BASE_URL = HttpsPrefix \o <<"k">> \o ApiRoot
    /\ startup.env.CONFLUENCE_HOST = <<"k">>
    /\ LoadedURL = startup.env.CONFLUENCE_BASE_URL

\* The string value of argument a, "" when it is absent or not a string.
StringOf(a) == IF IsString(a) THEN Get(a).s ELSE EmptyStr

\* Some comma-separated token of s is t, spaces around it aside.
HasToken(s, t) ==
    \E k \in 1..Len(Split(s, ",")) : TrimSpace(Split(s, ",")[k]) = t

\* The query of the one request a get-content, search-content or list-spaces
\* invocation has sent.
Sent(i, o) == op[i] = o /\ Len(calls[i]) = 1
QueryOf(i) == calls[i][1].req.query

\* Properties a caller may require in an expand list.
Requireds == {ExpandBodyStorage, <<"version">>, <<"space">>}

\* C16: ensureExpand(current, required) is required when current is empty,
\* current when a token of current is required once trimmed, and otherwise
\* current, a comma and required; the tokens of current stay in front in their
\* order and text; and applied again to its result it returns the result.
\* Checked for the expand argument of every get-content and every required
\* property, and for the expand get-content sends.
C16_EnsureExpandAppendsIfAbsent ==
    \A i \in Inv : Sent(i, "get-content") =>
        LET current == StringOf(ArgsOf(i).expand)
        IN  /\ Get(QueryOf(i).expand) = ensureExpand(current, ExpandBodyStorage)
            /\ \A required \in Requireds :
                   LET e == ensureExpand(current, required)
                   IN  /\ current = EmptyStr => e = required
                       /\ (current # EmptyStr /\ HasToken(current, required))
                              => e = current
                       /\ (current # EmptyStr /\ ~HasToken(current, required))
                              => e = current \o <<",">> \o required
                       /\ current # EmptyStr =>
                              SubSeq(Split(e, ","), 1,
                                     Len(Split(current, ","))) =
                                  Split(current, ",")
                       /\ ensureExpand(e, required) = e

\* A get-content sent for an expand that holds body.storage with a space
\* before it, and was left as it is.
C16_Witness ==
    \E i \in Inv :
        /\ Sent(i, "get-content")
        /\ StringOf(ArgsOf(i).expand) = <<"version", ",", " ", "body.storage">>
        /\ Get(QueryOf(i).expand) = <<"version", ",", " ", "body.storage">>

\* C17: every request of get-content carries an expand parameter with the
\* token body.storage, whatever the expand argument is.
C17_GetContentExpandsBodyStorage ==
    \A i \in Inv : \A k \in 1..Len(calls[i]) :
        op[i] = "get-content" =>
            /\ IsSome(calls[i][k].req.query.expand)
            /\ HasToken(Get(calls[i][k].req.query.expand), ExpandBodyStorage)

\* A get-content sent for expand=version with version and body.storage.
C17_Witness ==
    \E i \in Inv :
        /\ Sent(i, "get-content")
        /\ StringOf(ArgsOf(i).expand) = <<"version">>
        /\ Get(QueryOf(i).expand) = <<"version", ",", "body.storage">>

\* C18 as claimed: the expand parameter of every request, when present, has no
\* token twice.
C18_ExpandHasNoDuplicateToken ==
    \A i \in Inv : \A k \in 1..Len(calls[i]) :
        LET expand == calls[i][k].req.query.expand
            parts == Split(Get(expand), ",")
        IN  IsSome(expand) =>
                \A m, n \in 1..Len(parts) :
                    m # n => TrimSpace(parts[m]) # TrimSpace(parts[n])

\* C19 as claimed: the common query always carries limit, the truncation of a
\* numeric limit argument and 25 otherwise; it carries start exactly when the
\* start argument is numeric; and the limit and start sent are >= 0.
C19_LimitAndStartNonNegative ==
    \A i \in Inv : (op[i] \in ReadOps /\ Len(calls[i]) = 1) =>
        LET q == QueryOf(i)
            limit == ArgsOf(i).limit
            start == ArgsOf(i).start
        IN  /\ IsSome(q.limit)
            /\ (IsNumeric(limit) /\ TruncatesIntoInt(Get(limit).n)) =>
                   IsTruncationOf(Get(q.limit), Get(limit).n)
            /\ ~IsNumeric(limit) => Get(q.limit) = defaultLimit
            /\ IsSome(q.start) <=> IsNumeric(start)
            /\ Get(q.limit) >= 0
            /\ IsSome(q.start) => Get(q.start) >= 0

\* C20: create-content submits exactly one ancestor, with the parentId, when
\* parentId is a non-empty string, and no ancestors field otherwise; the kind
\* it submits is the type argument, or page when that is absent or empty.
C20_CreateAncestorsAndKind ==
    \A i \in Inv : Sent(i, "create-content") =>
        LET sub == Get(calls[i][1].req.body)
            parentId == StringOf(ArgsOf(i).parentId)
            type == StringOf(ArgsOf(i).type)
        IN  /\ parentId # EmptyStr => sub.ancestors = Some(<<Ancestor(parentId)>>)
            /\ parentId = EmptyStr => sub.ancestors = None
            /\ sub.type = Some(IF type = EmptyStr THEN PageType ELSE type)

\* A create-content sent with a parentId and a type.
C20_Witness ==
    \E i \in Inv :
        /\ Sent(i, "create-content")
        /\ StringOf(ArgsOf(i).parentId) = TheId
        /\ StringOf(ArgsOf(i).type) = BlogType
        /\ Get(calls[i][1].req.body).ancestors = Some(<<Ancestor(TheId)>>)
        /\ Get(calls[i][1].req.body).type = Some(BlogType)

\* Invocation i has been made with an argument container that is a mapping
\* or absent.
Invoked(i) == pc[i] # "idle"
Mapped(i) == Invoked(i) /\ raw[i].kind # "notmap"

\* Invocation i has returned the error result msg without sending a request.
Refused(i, msg) ==
    /\ Done(i) /\ Res(i).isError /\ Res(i).ctx = msg
    /\ Get(result[i]).err = NoErr
    /\ calls[i] = <<>>

\* C21: a handler whose required argument is missing, empty or not a string
\* returns an error result and sends no request; create-content reports the
\* first failing one of title, spaceKey, content.
C21_RequiredArgumentsValidated ==
    \A i \in Inv : Mapped(i) =>
        LET a == ArgsOf(i)
        IN  /\ (op[i] = "get-content" /\ BadRequired(a.contentId))
                   => Refused(i, MsgContentIdGet)
            /\ (op[i] = "update-content" /\ BadRequired(a.contentId))
                   => Refused(i, MsgContentIdUpdate)
            /\ (op[i] = "search-content" /\ BadRequired(a.cql))
                   => Refused(i, MsgCql)
            /\ (op[i] = "create-content" /\ BadRequired(a.title))
                   => Refused(i, MsgTitle)
            /\ (op[i] = "create-content" /\ ~BadRequired(a.title)
                    /\ BadRequired(a.spaceKey))
                   => Refused(i, MsgSpaceKey)
            /\ (op[i] = "create-content" /\ ~BadRequired(a.title)
                    /\ ~BadRequired(a.spaceKey) /\ BadRequired(a.content))
                   => Refused(i, MsgContent)

\* A create-content with a title, with spaceKey not a string and content empty,
\* refused for its spaceKey.
C21_Witness ==
    \E i \in Inv :
        /\ op[i] = "create-content" /\ Mapped(i)
        /\ ~BadRequired(ArgsOf(i).title)
        /\ ArgsOf(i).spaceKey = Some(AnyOther)
        /\ ArgsOf(i).content = Some(AnyStr(EmptyStr))
        /\ Refused(i, MsgSpaceKey)

\* s with a backslash put before every double quote.
RECURSIVE EscapeQuotes(_)
EscapeQuotes(s) ==
    IF s = <<>> THEN <<>>
    ELSE LET last == s[Len(s)]
             front == EscapeQuotes(SubSeq(s, 1, Len(s) - 1))
         IN  IF last = "\"" THEN front \o <<"\\", "\"">>
             ELSE Append(front, last)

\* C22: list-spaces sends the cql type=space when searchText is absent or
\* empty, and otherwise type=space AND title ~ "<text>", <text> being
\* searchText with a backslash before every double quote.
C22_ListSpacesCql ==
    \A i \in Inv : Sent(i, "list-spaces") =>
        LET searchText == StringOf(ArgsOf(i).searchText)
        IN  QueryOf(i).cql =
                Some(IF searchText = EmptyStr THEN <<"type=space">>
                     ELSE <<"type=space", " AND title ~ ", "\"">>
                              \o EscapeQuotes(searchText) \o <<"\"">>)

\* A list-spaces sent for a search text with a double quote in it.
C22_Witness ==
    \E i \in Inv :
        /\ Sent(i, "list-spaces")
        /\ StringOf(ArgsOf(i).searchText) = <<"a", "\"", "b">>
        /\ QueryOf(i).cql = Some(<<"type=space", " AND title ~ ", "\"",
                                   "a", "\\", "\"", "b", "\"">>)

\* C23: argument extraction yields the empty mapping for an absent container,
\* so that each handler acts as it does on a mapping with no key; for a
\* container that is not a string-keyed mapping it fails, and every handler
\* returns that error as an error result without sending a request.
C23_ArgumentExtraction ==
    \A i \in Inv : Invoked(i) =>
        /\ raw[i].kind = "notmap" =>
               Refused(i, MsgArgs) /\ Res(i).err.kind = ErrNotObject
        /\ (raw[i].kind = "nil" /\ op[i] = "list-spaces") =>
               /\ Len(calls[i]) = 1 \/ Res(i).err.kind = ErrBaseURL
               /\ Len(calls[i]) = 1 =>
                      QueryOf(i) = [limit |-> Some(defaultLimit),
                                    start |-> None, expand |-> None,
                                    cql |-> Some(<<"type=space">>)]
        /\ (raw[i].kind = "nil" /\ op[i] = "get-content") =>
               Refused(i, MsgContentIdGet)
        /\ (raw[i].kind = "nil" /\ op[i] = "update-content") =>
               Refused(i, MsgContentIdUpdate)
        /\ (raw[i].kind = "nil" /\ op[i] = "search-content") =>
               Refused(i, MsgCql)
        /\ (raw[i].kind = "nil" /\ op[i] = "create-content") =>
               Refused(i, MsgTitle)

\* A list-spaces without an argument container that has returned the remote's
\* answer to its request.
C23_Witness ==
    \E i \in Inv :
        /\ op[i] = "list-spaces" /\ raw[i].kind = "nil"
        /\ Len(calls[i]) = 1 /\ Done(i) /\ ~Res(i).isError

\* How many backslashes stand immediately before position k of s.
RECURSIVE BackslashesBefore(_, _)
BackslashesBefore(s, k) ==
    IF k > 1 /\ s[k - 1] = "\\" THEN 1 + BackslashesBefore(s, k - 1) ELSE 0

\* The positions of the double quotes of s that no backslash escapes: those
\* with an even number of backslashes immediately before them.
UnescapedQuotes(s) ==
    {k \in 1..Len(s) : s[k] = "\"" /\ BackslashesBefore(s, k) % 2 = 0}

\* C30 as claimed: in the cql list-spaces builds for a search text, the only
\* double quotes that are not escaped are the one that opens the literal
\* after title ~ and the last character.
C30_SearchTextStaysInLiteral ==
    \A i \in Inv :
        (Sent(i, "list-spaces") /\ StringOf(ArgsOf(i).searchText) # EmptyStr) =>
            LET cql == Get(QueryOf(i).cql)
            IN  UnescapedQuotes(cql) = {3, Len(cql)}

\* C24: when loadConfig fails, run returns a configuration error wrapping
\* its error, serve is never called and no operation is served; when it
\* succeeds, serve has been called exactly once, with a server that has the
\* five tools bound to a client holding the loaded configuration, and an
\* operation is served only by such a server.
C24_RunServesOnlyWhenConfigured ==
    /\ ~Loaded => startup.served = <<>> /\ startup.ret = None
    /\ (Loaded /\ LoadedOut.err # NoErr) =>
           /\ startup.ret = Some([ctx |-> ErrConfiguration, err |-> LoadedOut.err])
           /\ startup.served = <<>>
    /\ LoadedOk =>
           /\ Len(startup.served) = 1
           /\ startup.served[1].tools = Ops
           /\ Cardinality(startup.served[1].tools) = 5
           /\ startup.served[1].client.config = Get(LoadedOut.cfg)
           /\ config = Get(LoadedOut.cfg)
           /\ startup.ret # None =>
                  Get(startup.ret).ctx \in {"nil", ErrServer}
    /\ \A i \in Inv : op[i] # "none" => LoadedOk

\* loadConfig refused the scheme of the endpoint and run has returned.
C24_Witness ==
    /\ Loaded
    /\ LoadedOut.err = ErrOf(ErrScheme)
    /\ startup.ret # None
    /\ Get(startup.ret).ctx = ErrConfiguration
    /\ op["a"] = "none"

\* The error kinds executeRequest returns before the send.
BeforeSendErrors == {ErrOf(ErrBaseURL), ErrOf(ErrMarshal), ErrOf(ErrCreate)}

\* The direct call of invocation i must fail before the send.
FailsBeforeSend(i) ==
    \/ ~UrlParse(config.BaseURL).ok
    \/ raw[i].body = Some(Unmarshalable)
    \/ raw[i].method = MalformedMethod

\* C25: a call of executeRequest whose base URL does not parse, whose body
\* does not serialize or whose request cannot be constructed returns the
\* matching error and no response, and no request of it ever reaches the
\* network; any other call sends exactly one request.
C25_NoNetworkCallOnEarlyFailure ==
    \A i \in Inv :
        op[i] = "executeRequest" =>
            /\ FailsBeforeSend(i) =>
                   /\ calls[i] = <<>>
                   /\ Done(i)
                   /\ Get(result[i]).err \in BeforeSendErrors
                   /\ Get(result[i]).resp = None
            /\ ~FailsBeforeSend(i) => Len(calls[i]) = 1
            /\ (Done(i) /\ Get(result[i]).err \in BeforeSendErrors) =>
                   calls[i] = <<>>

\* A POST whose body is a channel, on a valid base URL: the marshal error.
C25_Witness ==
    /\ op["a"] = "executeRequest"
    /\ UrlParse(config.BaseURL).ok
    /\ raw["a"].body = Some(Unmarshalable)
    /\ Done("a")
    /\ Get(result["a"]).err = ErrOf(ErrMarshal)
    /\ calls["a"] = <<>>

\* doRequest or getJSON has returned on request k of invocation i.
Processed(i, k) == k < Len(calls[i]) \/ Done(i)

\* C26: once doRequest or getJSON has returned on a request for which
\* httpClient.Do gave a response, that response's body has been closed
\* exactly once, whatever the status, the delivery of the body and the
\* decoding; when no response was obtained nothing is closed; and a handler
\* that has returned has no response body open.
C26_ResponseBodyClosedOnce ==
    \A i \in Inv :
        \A k \in 1..Len(calls[i]) :
            LET c == calls[i][k]
                obtained == IsSome(c.out) /\ Get(c.out).net = "ok"
            IN  /\ c.closes <= 1
                /\ (obtained /\ Processed(i, k)) => c.closes = 1
                /\ (~obtained \/ ~Processed(i, k)) => c.closes = 0

\* An update-content has returned: its GET was answered 200 with the item,
\* its PUT 500 with a body cut short; both bodies are closed.
C26_Witness ==
    /\ Done("a")
    /\ PutSent("a")
    /\ Get(calls["a"][2].out).net = "ok"
    /\ Get(calls["a"][2].out).status = 500
    /\ Get(calls["a"][2].out).delivery = "cut_in_value"
    /\ calls["a"][1].closes = 1
    /\ calls["a"][2].closes = 1

\* Invocation i has returned and is at rest: it has a result, every request
\* it sent has an outcome, and doRequest or getJSON has returned on each.
AtRest(i) ==
    /\ IsSome(result[i])
    /\ \A k \in 1..Len(calls[i]) : IsSome(calls[i][k].out) /\ Processed(i, k)

\* C27: an invocation that waits for the remote eventually returns, given
\* that every remote call eventually returns; it has no result before it
\* returns; when it has returned it has one result and no request of it is in
\* flight; and after that its result and its requests never change.
C27_InvocationReturnsOnce ==
    /\ [](\A i \in Inv : (Done(i) => AtRest(i)) /\ (~Done(i) => result[i] = None))
    /\ [][\A i \in Inv :
             Done(i) => UNCHANGED <<pc[i], result[i], calls[i], op[i], raw[i]>>]_vars
    /\ (pc["a"] = "wait") ~> Done("a")

\* An update-content has returned after its GET was answered and its PUT
\* timed out.
C27_Witness ==
    /\ Done("a")
    /\ PutSent("a")
    /\ AtRest("a")
    /\ Get(calls["a"][2].out) = NetFailure
    /\ Res("a").isError

\* Both invocations are updates that have sent their PUT after fetching the
\* same version.
FetchedSameVersion ==
    /\ PutSent("a")
    /\ PutSent("b")
    /\ IsSome(FetchedDoc("a").version)
    /\ FetchedDoc("a").version = FetchedDoc("b").version

\* C28: against a remote that accepts a PUT only at its current version plus
\* one, two update-content invocations without a version argument that both
\* fetched version n both submit n + 1; the remote carries out at most one of
\* the two PUTs; an invocation reports success only if its PUT was carried
\* out; and when both have returned at least one has an error result.
C28_ConcurrentUpdatesOneWins ==
    FetchedSameVersion =>
        LET n == Get(FetchedDoc("a").version).Number
        IN  /\ \A i \in Inv : SubmittedVersion(i) = n + 1
            /\ ~(calls["a"][2].applied /\ calls["b"][2].applied)
            /\ \A i \in Inv :
                   (Done(i) /\ ~Res(i).isError) =>
                       /\ calls[i][2].applied
                       /\ remote = ApplyPut(remote, SubmittedDoc(i))
            /\ (Done("a") /\ Done("b")) =>
                   (Res("a").isError \/ Res("b").isError)

\* Both fetched version 1 and have returned: a's update was accepted and
\* reported, b's was rejected and reported as an API error.
C28_Witness ==
    /\ FetchedSameVersion
    /\ Done("a")
    /\ Done("b")
    /\ ~Res("a").isError
    /\ Res("b").isError
    /\ Res("b").err.kind = ErrAPI
    /\ SubmittedDoc("a").title # SubmittedDoc("b").title
    /\ remote.title = SubmittedDoc("a").title

\* C29 as claimed: every request of a get-content or an update-content is
\* addressed to the base URL's path followed by /content/ and the contentId
\* argument as the single final segment.
C29_RequestAddressesTheContentId ==
    \A i \in Inv : \A k \in 1..Len(calls[i]) :
        op[i] \in {"get-content", "update-content"} =>
            calls[i][k].req.path =
                UrlParse(config.BaseURL).Path \o ContentPrefix \o
                    StringOf(ArgsOf(i).contentId)

====
